---- MODULE Spec2Model ----
(***************************************************************************)
(* Tidepool: the scaling primitives (tidepool/scaling.py: ScalableGroup,   *)
(* LoadBalancer), the collector (services/mercury/Mercury.py), the sink    *)
(* (services/terminus/Terminus.py) and the monitor                         *)
(* (services/salus/Salus.py).                                              *)
(*                                                                         *)
(* The specifications of the module share its variables:                   *)
(*   Spec          one worker pool driven by its supervisor (start, stop,  *)
(*                 refresh, autoscale) while workers exit on their own and *)
(*                 the load queue changes depth;                           *)
(*   SpecS5        the same pool in the configuration of scenario S5       *)
(*                 (LoadBalancer, 1..5 workers), either with workers that  *)
(*                 run until terminated or with push_data as the target,   *)
(*                 and with the runs of consecutive autoscale ticks kept;  *)
(*   SpecValidator validator workers moving items from the unvalidated to  *)
(*                 the validated queue;                                    *)
(*   SpecValidatorPool  the validators under the autoscaling of their      *)
(*                 LoadBalancer;                                           *)
(*   SpecSink      the sink (services/terminus/Terminus.py): read_data,    *)
(*                 process_data, deduplicate, write_data;                  *)
(*   SpecTerminus  the sink together with the loop of its main program,    *)
(*                 under weak fairness of the loop and of every worker;    *)
(*   SpecDedup     the deduplicator and the recorder fed with packets;     *)
(*   SpecHealth    the health of the collector: stream readers counting    *)
(*                 their lines, update_health, and the publisher thread    *)
(*                 (services/mercury/HealthPublisher.py);                  *)
(*   SpecCollector the main program of the collector and its three pools:  *)
(*                 construction, start, autoscaling ticks, the binds of    *)
(*                 the pushers, keyboard interrupt;                        *)
(*   SpecMonitor   the monitor's collections of snapshots, one per port;   *)
(*   SpecStatus    status() on the collection of one collector as          *)
(*                 snapshots arrive and time passes.                       *)
(***************************************************************************)
EXTENDS Integers, Sequences, FiniteSets, TLC

VARIABLES
    \* ---- configuration of the pool, fixed by the constructor
    kind,                 \* "ScalableGroup" or "LoadBalancer"
    min_processes,        \* self.min_processes
    max_processes,        \* self.max_processes
    max_queue_size,       \* self.max_queue_size (LoadBalancer)
    target,               \* self.target: "worker" or "push_data"
    \* ---- state of the pool
    processes,            \* self.processes: sequence of worker ids
    alive,                \* ids of the workers whose process is alive
    nextId,               \* id the next created Process gets
    is_running,           \* self.is_running
    previous_queue_size,  \* self.previous_queue_size (LoadBalancer)
    qsize,                \* self.load_queue.qsize(), changed by other processes
    starting,             \* push_data workers that have not reached socket.bind
    bound,                \* push_data worker whose socket holds the port, or 0
    \* ---- history of the supervisor's calls
    obs,                  \* what the last completed call saw and did
    nStart,               \* start() calls so far: 0, 1, or 2 for more than one
    stopped,              \* stop() has returned and start() was not called since
    streak,               \* run of consecutive autoscale ticks of one kind
    \* ---- validator stage
    unvalidated_queue,    \* sequence of items
    validated_queue,      \* sequence of items
    vpc,                  \* validator worker -> position in its loop
    vitem,                \* validator worker -> item it took from the queue
    vtmp,                 \* validator worker -> data_count it read
    data_count,           \* validation_telemetry["data_count"]
    fed,                  \* number of items put on the unvalidated queue
    vlog,                 \* outcome of every item a validator finished with
    vq,                   \* queue_size read by a running _balance_load, or -1
    vfed,                 \* the items put on the unvalidated queue, in order
    vlost,                \* the items held by a validator when terminated
    \* ---- sink (Terminus)
    now,                  \* datetime.utcnow() as the processors read it
    data_queue,           \* self.data_queue: frames
    processed_queue,      \* self.processed_queue: packets
    write_queue,          \* self.write_queue: packets
    ppc,                  \* processor worker -> position in its loop
    pframe,               \* processor worker -> frame it took
    recent_data,          \* self.recent_data, the deduplicator's ring
    duplicate_count,      \* deduplicator_telemetry["duplicate_count"]
    action_count,         \* deduplicator_telemetry["action_count"]
    rpc,                  \* recorder worker -> position in its loop
    rpacket,              \* recorder worker -> packet it took
    db,                   \* the packets inserted in the document store
    injected,             \* intake_telemetry["action_count"]
    processor_count,      \* processor_telemetry["action_count"]
    recorder_count,       \* recorder_telemetry["action_count"]
    plog,                 \* every frame a processor finished with
    stream,               \* every packet the deduplicator took, in order
    rtaken,               \* every packet a recorder took, in order
    terminus_main,        \* where the sink's main loop is: "log" or "sleep"
    \* ---- health of the collector
    time_now,             \* time.time(), in ticks of 1/TicksPerSecond s
    health,               \* self.health: timestamp, data_collector count
    health_before,        \* the count update_health read the time before
    upc,                  \* position of the supervisor in update_health
    prev_message_id,      \* HealthPublisher.prev_message_id
    hpc,                  \* position of the publisher thread in its loop
    hseen,                \* timestamp the publisher read in its test
    published,            \* the snapshots sent on the PUB socket
    collection_count,     \* collection_telemetry["data_count"]
    cpc,                  \* stream reader -> position in its loop
    ctmp,                 \* stream reader -> data_count it read
    creads,               \* lines the stream readers have received
    \* ---- the collector's main program and its three pools
    main,                 \* position of the main program of Mercury.py
    pub,                  \* the PUB socket: "none", "bound" or "failed"
    pool,                 \* pool name -> is_running, processes, ...
    tick_number,          \* tick_number of DataCollector.run
    updated,              \* update_health has run since the last tick began
    \* ---- the monitor
    salus_time,           \* time.time() at the monitor, in seconds
    health_collections,   \* port -> HealthDataCollection.health_data
    received,             \* port -> every snapshot received, in order
    status_result         \* what the last status() call returned

poolVars ==
    <<kind, min_processes, max_processes, max_queue_size, target, processes,
      alive, nextId, is_running, previous_queue_size, qsize, starting, bound,
      obs, nStart, stopped, streak>>

valVars ==
    <<unvalidated_queue, validated_queue, vpc, vitem, vtmp, data_count, fed,
      vlog, vq, vfed, vlost>>

sinkVars ==
    <<now, data_queue, processed_queue, write_queue, ppc, pframe, recent_data,
      duplicate_count, action_count, rpc, rpacket, db, injected,
      processor_count, recorder_count, plog, stream, rtaken, terminus_main>>

healthVars ==
    <<time_now, health, health_before, upc, prev_message_id, hpc, hseen,
      published, collection_count, cpc, ctmp, creads>>

collVars ==
    <<main, pub, pool, tick_number, updated>>

monVars ==
    <<salus_time, health_collections, received, status_result>>

\* The collector's main program and the monitor.
restVars ==
    <<collVars, monVars>>

vars ==
    <<poolVars, valVars, sinkVars, healthVars, restVars>>

\* What the actions of the pool leave alone.
notPoolVars ==
    <<valVars, sinkVars, healthVars, restVars>>

\* What the actions of the validator stage leave alone, but for the pool's
\* previous_queue_size.
notValVars ==
    <<kind, min_processes, max_processes, max_queue_size, target, processes,
      alive, nextId, is_running, qsize, starting, bound, obs, nStart, stopped,
      streak, sinkVars, healthVars, restVars>>

-----------------------------------------------------------------------------
\* Bounds of the model.

\* Worker ids are never reused; at most MaxIds Process objects are created.
MaxIds ==
    5

\* The same for the pool of scenario S5.
MaxIdsS5 ==
    6

\* Largest max_processes argument the constructor is given.
MaxProcs ==
    3

\* Largest depth of the load queue; max_queue_size is one below it.
MaxDepth ==
    3

\* The tick counter of an idle streak saturates here.
MaxTicks ==
    20

\* The tick counter of a hot streak saturates here.
MaxHotTicks ==
    5

\* Items the stream readers put on the unvalidated queue.
MaxFeed ==
    2

\* Validator workers running.
MaxValidators ==
    2

\* Frames the intake threads of the sink receive.
MaxFrames ==
    2

\* min_processes of a pool constructed without it: the processor and the
\* recorder pool of the sink, which are started and never autoscaled.
DefaultMinProcesses ==
    1

\* The clock of the sink runs from 0 to MaxClock.
MaxClock ==
    1

\* Length of the deduplicator's ring (deque(maxlen=1000)), scaled down.
maxlen ==
    2

\* Packets put on the processed queue when the deduplicator is fed directly.
MaxStream ==
    4

\* The clock of the collector has TicksPerSecond ticks to the second
TicksPerSecond ==
    2

\* and runs from 0 to MaxTime ticks.
MaxTime ==
    3

\* Lines the stream readers receive from upstream.
MaxReads ==
    3

\* min_processes of data_collector, the pool of stream readers.
ReaderMinProcesses ==
    2

\* minProcesses and maxProcesses of dataValidator and dataPusher in the
\* configuration file.
CfgMin ==
    1

CfgMax ==
    2

\* Ticks of the supervisor loop.
MaxTickNumber ==
    4

\* The interval, in ticks, within which the stream readers are to be
\* refreshed.
RefreshInterval ==
    3

\* max_size of a HealthDataCollection.
max_size ==
    2

\* Snapshots a monitor thread receives from one collector.
MaxUpdates ==
    4

\* DataCollectorMonitor.DEGRADED_WINDOW, in seconds
DEGRADED_WINDOW ==
    60

\* DataCollectorMonitor.DEGRADED_THRESHOLD, in actions per second
DEGRADED_THRESHOLD ==
    5

\* The age in seconds above which status() returns Error.
StaleAfter ==
    5

\* The queue size above which status() tests for Degraded
DegradedQueueSize ==
    1000

\* and the one above which it tests for Error.
ErrorQueueSize ==
    10000

Min(a, b) ==
    IF a < b THEN a ELSE b

Range(s) ==
    {s[i] : i \in 1..Len(s)}

Depths ==
    0..MaxDepth

-----------------------------------------------------------------------------
\* The items of the stream.

\* The fields validate_price requires.
PriceFields ==
    {"type", "time", "bids", "asks", "closeoutBid", "closeoutAsk", "status",
     "tradeable", "instrument"}

\* The fields validate_heartbeat requires.
HeartbeatFields ==
    {"type", "time"}

\* An item is a line of the stream: a string.  Of the string the model keeps
\* whether it is the JSON text of an object, the keys of that object, the
\* value under "type" ("none" when there is no such key) and its layout, the
\* part of the text (spacing, key order) that decoding does not keep.
Item(ty, ks, fmt) ==
    [json |-> TRUE, type |-> ty,
     keys |-> IF ty = "none" THEN ks \ {"type"} ELSE ks \cup {"type"},
     fmt |-> fmt]

NotJson ==
    [json |-> FALSE, type |-> "none", keys |-> {}, fmt |-> "compact"]

NoItem ==
    [json |-> FALSE, type |-> "none", keys |-> {}, fmt |-> "none"]

KeySets ==
    {PriceFields} \cup {PriceFields \ {f} : f \in PriceFields \ {"type"}}
        \cup {HeartbeatFields, {}}

FeedItems ==
    {Item("PRICE", ks, "compact") : ks \in KeySets}
        \cup {Item("PRICE", PriceFields, "spaced")}
        \cup {Item("HEARTBEAT", ks, "compact") : ks \in {HeartbeatFields, {}}}
        \cup {Item("OTHER", {}, "compact"), Item("OTHER", {}, "spaced"),
              Item("none", HeartbeatFields, "compact"), NotJson}

Validators ==
    1..MaxValidators

\* No packet, for a recorder that holds none.
NoPacket ==
    [dest |-> "none", data |-> [time |-> 0, data |-> NoItem]]

Processors ==
    1..DefaultMinProcesses

Recorders ==
    1..DefaultMinProcesses

Readers ==
    1..ReaderMinProcesses

\* The pools DataCollector owns.
Pools ==
    {"data_pusher", "data_validator", "data_collector"}

\* The two LoadBalancers among them.
IsBalancer(p) ==
    p # "data_collector"

PoolMin(p) ==
    IF IsBalancer(p) THEN CfgMin ELSE ReaderMinProcesses

\* max_processes if max_processes > min_processes else min_processes
PoolMax(p) ==
    LET mx == IF IsBalancer(p) THEN CfgMax ELSE 1
    IN  IF mx > PoolMin(p) THEN mx ELSE PoolMin(p)

\* max_queue_size of the two LoadBalancers, which the collector leaves at
\* its default, as a depth of the model.
PoolMaxQueue ==
    MaxDepth - 1

\* health_port of Salus.py
health_port(id) ==
    7100 + id

\* The collectors the monitor is started with.
Indices ==
    {1, 2}

Ports ==
    {health_port(i) : i \in Indices}

\* No status() call since the monitor last changed.
NoResult ==
    [index |-> 0, code |-> 0, message |-> "none"]

\* The keys of self.health as DataCollector.__init__ builds it.
InitialKeys ==
    {"data_collector.data_count", "data_collector.process_count",
     "data_validator.data_count", "data_validator.process_count",
     "server.uptime", "timestamp"}

\* The keys of the entries update_health assigns before the timestamp.
ComputedKeys ==
    {"data_collector.num_processes", "data_collector.action_count",
     "data_validator.num_processes", "data_validator.action_count",
     "data_validator.queue_size", "data_pusher.num_processes",
     "data_pusher.action_count", "data_pusher.queue_size", "server.uptime"}

-----------------------------------------------------------------------------
\* The worker set as the methods of ScalableGroup change it.  g is a record
\* [processes, alive, nextId, killed]; killed collects the workers on which
\* terminate() and join() were called.

Group ==
    [processes |-> processes, alive |-> alive, nextId |-> nextId, killed |-> {}]

\* _scale_up: create a process, start it, append it.
ScaleUp(g) ==
    [g EXCEPT !.processes = Append(@, g.nextId),
              !.alive = @ \cup {g.nextId},
              !.nextId = @ + 1]

\* _scale_down: pop the last process, terminate it, join it.
ScaleDown(g) ==
    LET n == Len(g.processes)
        p == g.processes[n]
    IN  [g EXCEPT !.processes = SubSeq(@, 1, n - 1),
                  !.alive = @ \ {p},
                  !.killed = @ \cup {p}]

\* _prune that removes nothing.
PruneNone(g) ==
    g

\* _prune: remove every process that is not alive.
Prune(g) ==
    [g EXCEPT !.processes = SelectSeq(@, LAMBDA p : p \in g.alive)]

RECURSIVE ScaleUpTo(_, _)
ScaleUpTo(g, n) ==
    IF Len(g.processes) < n THEN ScaleUpTo(ScaleUp(g), n) ELSE g

RECURSIVE ScaleDownTo(_, _)
ScaleDownTo(g, n) ==
    IF Len(g.processes) > n THEN ScaleDownTo(ScaleDown(g), n) ELSE g

\* _scale: grow to min_processes, then shrink to max_processes.
ScaleNoShrink(g) ==
    ScaleUpTo(g, min_processes)

Scale(g) ==
    ScaleDownTo(ScaleUpTo(g, min_processes), max_processes)

\* ScalableGroup.autoscale past its is_running check.
BaseAutoscale(g) ==
    Scale(Prune(g))

\* _balance_load growing the set without looking at max_processes.
BalanceLoadNoCap(g, q, q2) ==
    IF q > max_queue_size
    THEN ScaleUp(g)
    ELSE IF q < max_queue_size /\ q2 < previous_queue_size
              /\ Len(g.processes) > min_processes
         THEN ScaleDown(g)
         ELSE g

\* _balance_load shrinking the set without looking at min_processes.
BalanceLoadNoFloor(g, q, q2) ==
    IF q > max_queue_size /\ Len(g.processes) < max_processes
    THEN ScaleUp(g)
    ELSE IF q < max_queue_size /\ q2 < previous_queue_size
              /\ Len(g.processes) > 0
         THEN ScaleDown(g)
         ELSE g

\* _balance_load with a loop in place of its first if.
BalanceLoadBurst(g, q, q2) ==
    IF q > max_queue_size /\ Len(g.processes) < max_processes
    THEN ScaleUpTo(g, max_processes)
    ELSE IF q < max_queue_size /\ q2 < previous_queue_size
              /\ Len(g.processes) > min_processes
         THEN ScaleDown(g)
         ELSE g

\* LoadBalancer._balance_load: q is the first qsize() read (queue_size), q2
\* the second one (compared with previous_queue_size).
BalanceLoad(g, q, q2) ==
    LET queue_shrinking == q2 < previous_queue_size
    IN  IF q > max_queue_size /\ Len(g.processes) < max_processes
        THEN ScaleUp(g)
        ELSE IF q < max_queue_size /\ queue_shrinking
                  /\ Len(g.processes) > min_processes
             THEN ScaleDown(g)
             ELSE g

\* refresh: range(process_count()) is evaluated once; every round pops the
\* last process and appends a new one.
RECURSIVE RefreshRounds(_, _)
RefreshRounds(g, n) ==
    IF n = 0 THEN g ELSE RefreshRounds(ScaleUp(ScaleDown(g)), n - 1)

\* stop with an if in place of its while.
StopOne(g) ==
    IF Len(g.processes) > 0 THEN ScaleDown(g) ELSE g

\* stop: while self.processes: self._scale_down()
StopAll(g) ==
    ScaleDownTo(g, 0)

\* start: min_processes processes are created, started and appended.
RECURSIVE StartRounds(_, _)
StartRounds(g, n) ==
    IF n = 0 THEN g ELSE StartRounds(ScaleUp(g), n - 1)

-----------------------------------------------------------------------------
\* History records.

NoStreak ==
    [kind |-> "none", len |-> 0, from |-> 0, peak |-> 0]

Quiet ==
    [op |-> "none", ok |-> TRUE, before |-> <<>>, dead |-> {}, killed |-> {},
     q |-> 0, q2 |-> 0, prev |-> 0, nb |-> 0]

\* The record of a call op that turned the worker set into g.
Seen(op, ok, g, q, q2, nb) ==
    [op |-> op, ok |-> ok, before |-> processes,
     dead |-> Range(processes) \ alive, killed |-> g.killed,
     q |-> q, q2 |-> q2, prev |-> previous_queue_size, nb |-> nb]

Install(g) ==
    /\ processes' = g.processes
    /\ alive' = g.alive
    /\ nextId' = g.nextId

Config ==
    <<kind, min_processes, max_processes, max_queue_size, target>>

-----------------------------------------------------------------------------
\* The supervisor's calls.

Start ==
    /\ LET g == StartRounds(Group, min_processes)
       IN  /\ Install(g)
           /\ obs' = Seen("start", TRUE, g, 0, 0, 0)
    /\ is_running' = TRUE
    /\ nStart' = Min(nStart + 1, 2)
    /\ stopped' = FALSE
    /\ UNCHANGED <<Config, previous_queue_size, qsize, notPoolVars>>

Stop ==
    /\ LET g == StopAll(Group)
       IN  /\ Install(g)
           /\ obs' = Seen("stop", TRUE, g, 0, 0, 0)
    /\ stopped' = TRUE
    /\ UNCHANGED <<Config, is_running, previous_queue_size, qsize, nStart,
                   notPoolVars>>

Refresh ==
    /\ LET g == RefreshRounds(Group, Len(processes))
       IN  /\ Install(g)
           /\ obs' = Seen("refresh", TRUE, g, 0, 0, 0)
    /\ UNCHANGED <<Config, is_running, previous_queue_size, qsize, nStart,
                   stopped, notPoolVars>>

\* autoscale() of either class on a group that is not running: the exception
\* of ScalableGroup.autoscale leaves the call.
AutoscaleNotRunning ==
    /\ ~is_running
    /\ obs' = Seen("autoscale", FALSE, Group, 0, 0, 0)
    /\ UNCHANGED <<Config, processes, alive, nextId, is_running,
                   previous_queue_size, qsize, nStart, stopped, notPoolVars>>

\* ScalableGroup.autoscale on a running group.
SGAutoscale ==
    /\ kind = "ScalableGroup"
    /\ is_running
    /\ LET g == BaseAutoscale(Group)
       IN  /\ Install(g)
           /\ obs' = Seen("autoscale", TRUE, g, 0, 0, Len(g.processes))
    /\ UNCHANGED <<Config, is_running, previous_queue_size, qsize, nStart,
                   stopped, notPoolVars>>

\* LoadBalancer.autoscale that balances the load whether or not the base
\* class raised.
LBAutoscaleUnguarded ==
    /\ kind = "LoadBalancer"
    /\ \E q2 \in Depths :
         LET b == IF is_running THEN BaseAutoscale(Group) ELSE Group
             g == BalanceLoad(b, qsize, q2)
         IN  /\ Install(g)
             /\ obs' = Seen("autoscale", is_running, g, qsize, q2,
                            Len(b.processes))
             /\ previous_queue_size' = qsize
             /\ qsize' = q2
    /\ UNCHANGED <<Config, is_running, nStart, stopped, notPoolVars>>

\* LoadBalancer.autoscale on a running group: super().autoscale(), then
\* _balance_load().  Other processes may change the queue between the two
\* qsize() reads of _balance_load.
LBAutoscale ==
    /\ kind = "LoadBalancer"
    /\ is_running
    /\ \E q2 \in Depths :
         LET b == BaseAutoscale(Group)
             g == BalanceLoad(b, qsize, q2)
         IN  /\ Install(g)
             /\ obs' = Seen("autoscale", TRUE, g, qsize, q2, Len(b.processes))
             /\ previous_queue_size' = qsize
             /\ qsize' = q2
    /\ UNCHANGED <<Config, is_running, nStart, stopped, notPoolVars>>

-----------------------------------------------------------------------------
\* The environment of the pool.

\* A worker's process ends on its own (its target returns or raises).
WorkerExit ==
    /\ \E p \in alive : alive' = alive \ {p}
    /\ obs' = Quiet
    /\ UNCHANGED <<Config, processes, nextId, is_running,
                   previous_queue_size, qsize, nStart, stopped, notPoolVars>>

\* Producers and workers change the depth of the load queue.
QueueChange ==
    /\ kind = "LoadBalancer"
    /\ \E q \in Depths \ {qsize} : qsize' = q
    /\ obs' = Quiet
    /\ UNCHANGED <<Config, processes, alive, nextId, is_running,
                   previous_queue_size, nStart, stopped, notPoolVars>>

-----------------------------------------------------------------------------
\* Initial states.

InitValidator ==
    /\ unvalidated_queue = <<>>
    /\ validated_queue = <<>>
    /\ vpc = [w \in Validators |-> "off"]
    /\ vitem = [w \in Validators |-> NoItem]
    /\ vtmp = [w \in Validators |-> 0]
    /\ data_count = 0
    /\ fed = 0
    /\ vlog = <<>>
    /\ vq = -1
    /\ vfed = <<>>
    /\ vlost = <<>>

\* DBPipeline as constructed and started: a processor and a recorder pool
\* of min_processes workers each, empty queues, an empty ring.
InitSink ==
    /\ now = 0
    /\ data_queue = <<>>
    /\ processed_queue = <<>>
    /\ write_queue = <<>>
    /\ ppc = [w \in Processors |-> "get"]
    /\ pframe = [w \in Processors |-> NoItem]
    /\ recent_data = <<>>
    /\ duplicate_count = 0
    /\ action_count = 0
    /\ rpc = [r \in Recorders |-> "get"]
    /\ rpacket = [r \in Recorders |-> NoPacket]
    /\ db = <<>>
    /\ injected = 0
    /\ processor_count = 0
    /\ recorder_count = 0
    /\ plog = <<>>
    /\ stream = <<>>
    /\ rtaken = <<>>
    /\ terminus_main = "log"

\* The collector as constructed and started: the health dict of __init__,
\* a publisher that has sent nothing, min_processes stream readers.
InitHealth ==
    /\ time_now = 0
    /\ health = [timestamp |-> 0, action_count |-> 0, keys |-> InitialKeys]
    /\ health_before = 0
    /\ upc = "counts"
    /\ prev_message_id = -TicksPerSecond
    /\ hpc = "test"
    /\ hseen = 0
    /\ published = <<>>
    /\ collection_count = 0
    /\ cpc = [w \in Readers |-> "put"]
    /\ ctmp = [w \in Readers |-> 0]
    /\ creads = 0

\* The main program of Mercury.py about to construct the DataCollector: the
\* three pools as their constructors leave them.
InitCollector ==
    /\ main = "construct"
    /\ pub = "none"
    /\ pool = [p \in Pools |->
                 [is_running |-> FALSE, processes |-> <<>>,
                  previous_queue_size |-> 0, stopped |-> FALSE,
                  refreshed |-> FALSE]]
    /\ tick_number = 1
    /\ updated = FALSE

\* DataCollectorMonitor.__init__: an empty collection for every port.
InitMonitor ==
    /\ salus_time = 0
    /\ health_collections = [port \in Ports |-> <<>>]
    /\ received = [port \in Ports |-> <<>>]
    /\ status_result = NoResult

\* ScalableGroup.__init__ / LoadBalancer.__init__ with the arguments given.
Construct(k, t, mn, mx, mqs) ==
    /\ kind = k
    /\ target = t
    /\ min_processes = mn
    /\ max_processes = (IF mx > mn THEN mx ELSE mn)
    /\ max_queue_size = mqs
    /\ processes = <<>>
    /\ alive = {}
    /\ nextId = 1
    /\ is_running = FALSE
    /\ previous_queue_size = 0
    /\ qsize = 0
    /\ starting = {}
    /\ bound = 0
    /\ obs = Quiet
    /\ nStart = 0
    /\ stopped = FALSE
    /\ streak = NoStreak

Init ==
    /\ \E mn \in 1..2, mx \in 1..MaxProcs :
         \/ Construct("ScalableGroup", "worker", mn, mx, 0)
         \/ Construct("LoadBalancer", "worker", mn, mx, MaxDepth - 1)
    /\ InitValidator
    /\ InitSink
    /\ InitHealth
    /\ InitCollector
    /\ InitMonitor

\* The pool whose workers run until they are terminated or exit on their own,
\* with no streak kept.
Plain ==
    /\ nextId' <= MaxIds + 1
    /\ UNCHANGED <<streak, starting, bound>>

Next ==
    \/ Start /\ Plain
    \/ Stop /\ Plain
    \/ Refresh /\ Plain
    \/ AutoscaleNotRunning /\ Plain
    \/ SGAutoscale /\ Plain
    \/ LBAutoscale /\ Plain
    \/ WorkerExit /\ Plain
    \/ QueueChange /\ Plain

Spec ==
    Init /\ [][Next]_vars

-----------------------------------------------------------------------------
\* Properties of the pool.

\* The workers of the set whose process is alive.
Live ==
    Cardinality(Range(processes) \cap alive)

Abs(x) ==
    IF x < 0 THEN -x ELSE x

\* start() was called once and stop() was not called since.
Started ==
    nStart = 1 /\ ~stopped

\* The last completed call was an autoscale() of a running LoadBalancer.
Balanced ==
    obs.op = "autoscale" /\ obs.ok /\ kind = "LoadBalancer"

\* C1 as claimed: after start() and before stop() the number of live workers
\* lies between min_processes and max_processes in every state.
C1_LiveWithinBounds ==
    Started => (min_processes <= Live /\ Live <= max_processes)

\* C1 amended: after start() and before stop() the size of the worker set,
\* live workers and exited workers not yet pruned together, lies between
\* min_processes and max_processes; so the live workers are at most
\* max_processes, and at least min_processes while no worker of the set has
\* exited.
C1_SetWithinBounds ==
    Started =>
        /\ min_processes <= Len(processes)
        /\ Len(processes) <= max_processes
        /\ Live <= max_processes
        /\ (Range(processes) \subseteq alive => Live >= min_processes)

\* C1 witness: a started pool at max_processes whose live workers are fewer
\* than min_processes.
C1_Witness ==
    /\ Started
    /\ Len(processes) = max_processes
    /\ max_processes > min_processes
    /\ Live < min_processes

\* C2: when stop() returns the worker set is empty and terminate() and join()
\* were called on every worker that was in it, none of which is alive.
C2_StopEmptiesPool ==
    obs.op = "stop" =>
        /\ Len(processes) = 0
        /\ obs.killed = Range(obs.before)
        /\ Range(obs.before) \cap alive = {}

\* C2 witness: stop() has returned on a set of two or more workers, one of
\* them alive and one exited.
C2_Witness ==
    /\ obs.op = "stop"
    /\ Len(obs.before) >= 2
    /\ obs.dead # {}
    /\ obs.dead # Range(obs.before)

\* C3 as claimed: when refresh() returns, the set holds as many workers as
\* before and none of the workers it held before the call.
C3_RefreshRecyclesAll ==
    obs.op = "refresh" =>
        /\ Len(processes) = Len(obs.before)
        /\ Range(processes) \cap Range(obs.before) = {}

\* C4: on a pool on which start() was never called, autoscale() fails and the
\* pool stays as constructed: no worker, no process created, and
\* previous_queue_size not updated.
C4_NotRunningUnchanged ==
    nStart = 0 =>
        /\ ~is_running
        /\ processes = <<>>
        /\ alive = {}
        /\ nextId = 1
        /\ previous_queue_size = 0
        /\ (obs.op = "autoscale" => ~obs.ok)

\* C4 witness: autoscale() has failed on a LoadBalancer that was never
\* started, with a load queue that is not empty.
C4_Witness ==
    /\ nStart = 0
    /\ obs.op = "autoscale"
    /\ ~obs.ok
    /\ kind = "LoadBalancer"
    /\ qsize > 0

\* C5: a LoadBalancer.autoscale() that reads a depth above max_queue_size
\* adds exactly one worker, alive and new, to the set its base step left when
\* that set is below max_processes, and adds none when it is at max_processes.
C5_ScaleUpByOne ==
    (Balanced /\ obs.q > max_queue_size) =>
        IF obs.nb < max_processes
        THEN /\ Len(processes) = obs.nb + 1
             /\ processes[Len(processes)] = nextId - 1
             /\ nextId - 1 \in alive
             /\ nextId - 1 \notin Range(obs.before)
        ELSE Len(processes) = obs.nb

\* C5 witness: such a call has added a worker to a set below max_processes.
C5_Witness ==
    /\ Balanced
    /\ obs.q > max_queue_size
    /\ obs.nb < max_processes
    /\ Len(processes) = obs.nb + 1

\* C6 as claimed: a LoadBalancer.autoscale() of a started pool that sees one depth q with
\* q <= max_queue_size, q not greater than the depth recorded by the previous
\* call, and more than min_processes workers after its base step, removes
\* exactly one worker.
C6_ScaleDownWhenNotGrowing ==
    (/\ Balanced
     /\ Started
     /\ obs.q2 = obs.q
     /\ obs.q <= max_queue_size
     /\ ~(obs.q > obs.prev)
     /\ obs.nb > min_processes) => Len(processes) = obs.nb - 1

\* C7 as claimed: one LoadBalancer.autoscale() call of a started pool changes
\* the size of the worker set by at most one.
C7_CallChangesByOne ==
    (Balanced /\ Started) => Abs(Len(processes) - Len(obs.before)) <= 1

\* C7 amended: one LoadBalancer.autoscale() call changes the size of the
\* worker set by at most one past its base step (pruning, scaling into
\* min..max); when every worker is alive and the size is within min..max at
\* the call, the call changes the size by at most one.
C7_BalanceChangesByOne ==
    Balanced =>
        /\ Abs(Len(processes) - obs.nb) <= 1
        /\ (/\ obs.dead = {}
            /\ min_processes <= Len(obs.before)
            /\ Len(obs.before) <= max_processes)
           => Abs(Len(processes) - Len(obs.before)) <= 1

\* C7 witness: a call on a set of live workers below max_processes, at least
\* two below, has read a depth above max_queue_size after a smaller one.
C7_Witness ==
    /\ Balanced
    /\ obs.dead = {}
    /\ obs.q > max_queue_size
    /\ obs.prev < max_queue_size
    /\ Len(obs.before) + 2 <= max_processes
    /\ Len(processes) = Len(obs.before) + 1

-----------------------------------------------------------------------------
\* Scenario S5: a LoadBalancer with min_processes = 1 and max_processes = 5.

\* The streak after a LoadBalancer tick that read depths q and q2, was called
\* with n workers in the set and returned with live workers alive: hot while
\* the ticks read a depth above max_queue_size, idle while they find the queue
\* empty.  from is the size of the set when the streak began, peak the most
\* live workers a tick of the streak returned with.
NextStreak(q, q2, n, live) ==
    LET k == IF q > max_queue_size THEN "hot"
             ELSE IF q = 0 /\ q2 = 0 THEN "idle" ELSE "none"
    IN  IF k = "none" THEN NoStreak
        ELSE IF streak.kind = k
             THEN [streak EXCEPT !.len = Min(@ + 1, IF k = "hot"
                                                    THEN MaxHotTicks
                                                    ELSE MaxTicks),
                                 !.peak = IF live > @ THEN live ELSE @]
             ELSE [kind |-> k, len |-> 1, from |-> n, peak |-> live]

\* Process.start() of a push_data worker: the new process has yet to bind.
\* A process that is no longer alive holds no socket.
Boot ==
    /\ nextId' <= MaxIdsS5 + 1
    /\ starting' = IF target = "push_data"
                   THEN (starting \cap alive') \cup (alive' \ alive)
                   ELSE {}
    /\ bound' = IF bound \in alive' THEN bound ELSE 0

\* push_data up to its loop: socket.bind(tcp://*:port) succeeds when no live
\* process holds the port; on ZMQError the worker logs and returns.
PusherBind ==
    /\ \E p \in starting :
         /\ starting' = starting \ {p}
         /\ IF bound = 0
            THEN bound' = p /\ alive' = alive
            ELSE bound' = bound /\ alive' = alive \ {p}
    /\ obs' = Quiet
    /\ UNCHANGED <<Config, processes, nextId, is_running,
                   previous_queue_size, qsize, nStart, stopped, streak,
                   notPoolVars>>

InitS5 ==
    /\ \E t \in {"worker", "push_data"} :
         Construct("LoadBalancer", t, 1, 5, MaxDepth - 1)
    /\ InitValidator
    /\ InitSink
    /\ InitHealth
    /\ InitCollector
    /\ InitMonitor

\* The pool as DataCollector.run drives it: start() once, then autoscale()
\* tick after tick.
NextS5 ==
    \/ nStart = 0 /\ Start /\ Boot /\ streak' = NoStreak
    \/ LBAutoscale /\ Boot
         /\ streak' = NextStreak(qsize, qsize', Len(processes),
                                 Cardinality(Range(processes') \cap alive'))
    \/ WorkerExit /\ Boot /\ streak' = NoStreak
    \/ QueueChange /\ Boot
         /\ streak' = (IF streak.kind = "idle" THEN NoStreak ELSE streak)
    \/ PusherBind

SpecS5 ==
    InitS5 /\ [][NextS5]_vars

\* Workers that run until terminated: once 4 consecutive ticks of a pool
\* started with 1 worker and max_processes = 5 have read a depth above
\* max_queue_size, with no worker exiting in between, 5 workers are alive.
S5_WorkersReachFive ==
    (/\ target = "worker"
     /\ Started
     /\ streak.kind = "hot"
     /\ streak.from = 1
     /\ streak.len >= 4) => (Live = 5 /\ Len(processes) = 5)

\* C8 as claimed: in the pusher pool, started once with 1 worker and
\* max_processes = 5, once 5 consecutive autoscale ticks have read a depth
\* above max_queue_size with no worker crashing in between, one of these
\* ticks has returned with 5 live workers.
C8_PushersReachFive ==
    (/\ target = "push_data"
     /\ Started
     /\ streak.kind = "hot"
     /\ streak.from = 1
     /\ streak.len >= 5) => streak.peak = 5

\* C9 as claimed: once 20 consecutive autoscale ticks of a started
\* LoadBalancer have found the load queue empty, the worker set is back at
\* min_processes.
C9_IdleReturnsToMin ==
    (Started /\ streak.kind = "idle" /\ streak.len >= 20) =>
        Len(processes) = min_processes

-----------------------------------------------------------------------------
\* The validator stage of the collector (DataCollector.validate_data).

\* json.loads(item): the dict, as its keys and the value under "type".
Loads(item) ==
    [keys |-> item.keys, type |-> item.type]

\* json.dumps(json.loads(item)): the text of the same object in the layout
\* the encoder writes.
Dumps(datapoint) ==
    [json |-> TRUE, type |-> datapoint.type, keys |-> datapoint.keys,
     fmt |-> "compact"]

\* validate_price with closeoutAsk missing from its list.
validate_price_short(datapoint) ==
    \A field \in PriceFields \ {"closeoutAsk"} : field \in datapoint.keys

\* validate_price(datapoint)
validate_price(datapoint) ==
    \A field \in PriceFields : field \in datapoint.keys

\* validate_heartbeat(datapoint)
validate_heartbeat(datapoint) ==
    \A field \in HeartbeatFields : field \in datapoint.keys

\* What one round of the loop of validate_data does with item, from
\* json.loads to validated_queue.put: "raise" when json.loads or
\* datapoint["type"] raises, "continue" when the item is dropped, "put"
\* when it is forwarded.
Verdict(item) ==
    IF ~item.json THEN "raise"
    ELSE LET datapoint == Loads(item)
         IN  IF "type" \notin datapoint.keys THEN "raise"
             ELSE IF datapoint.type = "PRICE"
                  THEN IF validate_price(datapoint) THEN "put" ELSE "continue"
                  ELSE IF datapoint.type = "HEARTBEAT"
                       THEN IF validate_heartbeat(datapoint)
                            THEN "put" ELSE "continue"
                       ELSE "put"

\* The datapoint encoded again in place of the item.
Reencoded(item) ==
    Dumps(Loads(item))

\* What validated_queue.put is given: the item itself.
Forwarded(item) ==
    item

\* collect_data: a stream reader puts the next line of the stream, one of
\* items, on the unvalidated queue.
FeedFrom(items) ==
    /\ fed < MaxFeed
    /\ \E item \in items :
         /\ unvalidated_queue' = Append(unvalidated_queue, item)
         /\ vfed' = Append(vfed, item)
    /\ fed' = fed + 1
    /\ UNCHANGED <<validated_queue, vpc, vitem, vtmp, data_count, vlog, vq,
                   vlost, previous_queue_size, notValVars>>

\* item = unvalidated_queue.get()
VGetLast(w) ==
    /\ vpc[w] = "get"
    /\ unvalidated_queue # <<>>
    /\ vitem' = [vitem EXCEPT ![w] = unvalidated_queue[Len(unvalidated_queue)]]
    /\ unvalidated_queue' =
           SubSeq(unvalidated_queue, 1, Len(unvalidated_queue) - 1)
    /\ vpc' = [vpc EXCEPT ![w] = "check"]
    /\ UNCHANGED <<validated_queue, vtmp, data_count, fed, vlog, vq, vfed,
                   vlost, previous_queue_size, notValVars>>

VGet(w) ==
    /\ vpc[w] = "get"
    /\ unvalidated_queue # <<>>
    /\ vitem' = [vitem EXCEPT ![w] = Head(unvalidated_queue)]
    /\ unvalidated_queue' = Tail(unvalidated_queue)
    /\ vpc' = [vpc EXCEPT ![w] = "check"]
    /\ UNCHANGED <<validated_queue, vtmp, data_count, fed, vlog, vq, vfed,
                   vlost, previous_queue_size, notValVars>>

\* json.loads(item) up to validated_queue.put(item), continue, or the
\* exception that ends the worker.
VCheck(w) ==
    /\ vpc[w] = "check"
    /\ LET v == Verdict(vitem[w])
       IN  /\ validated_queue' =
                 IF v = "put"
                 THEN Append(validated_queue, Forwarded(vitem[w]))
                 ELSE validated_queue
           /\ vpc' = [vpc EXCEPT ![w] =
                 IF v = "put" THEN "read"
                 ELSE IF v = "continue" THEN "get" ELSE "dead"]
           /\ vlog' = Append(vlog, [item |-> vitem[w], fate |-> v])
    /\ vitem' = [vitem EXCEPT ![w] = NoItem]
    /\ UNCHANGED <<unvalidated_queue, vtmp, data_count, fed, vq, vfed, vlost,
                   previous_queue_size, notValVars>>

\* telemetry["data_count"] += 1, the read of the shared dict
VRead(w) ==
    /\ vpc[w] = "read"
    /\ vtmp' = [vtmp EXCEPT ![w] = data_count]
    /\ vpc' = [vpc EXCEPT ![w] = "write"]
    /\ UNCHANGED <<unvalidated_queue, validated_queue, vitem, data_count,
                   fed, vlog, vq, vfed, vlost, previous_queue_size,
                   notValVars>>

\* telemetry["data_count"] += 1, the write to the shared dict
VWrite(w) ==
    /\ vpc[w] = "write"
    /\ data_count' = vtmp[w] + 1
    /\ vtmp' = [vtmp EXCEPT ![w] = 0]
    /\ vpc' = [vpc EXCEPT ![w] = "get"]
    /\ UNCHANGED <<unvalidated_queue, validated_queue, vitem, fed, vlog, vq,
                   vfed, vlost, previous_queue_size, notValVars>>

\* The validator workers of data_validator.processes, in the order of the
\* list: the workers that are not "off" are the slots 1..VLen.
VState ==
    [pc |-> vpc, item |-> vitem, tmp |-> vtmp]

\* len(self.processes) of data_validator
VLen(s) ==
    Cardinality({w \in Validators : s.pc[w] # "off"})

\* _scale_up of data_validator: a new validator is appended.
VScaleUp(s) ==
    [s EXCEPT !.pc[VLen(s) + 1] = "get"]

\* _scale_down of data_validator: the last validator is terminated at
\* whatever point of its loop it is.
VScaleDown(s) ==
    LET w == VLen(s)
    IN  [pc |-> [s.pc EXCEPT ![w] = "off"],
         item |-> [s.item EXCEPT ![w] = NoItem],
         tmp |-> [s.tmp EXCEPT ![w] = 0]]

\* _prune of data_validator: the validators that have exited leave the list.
VPrune(s) ==
    LET keep == SelectSeq([i \in Validators |-> i],
                          LAMBDA w : s.pc[w] \notin {"off", "dead"})
        Slot(f, none) == [i \in Validators |->
                             IF i <= Len(keep) THEN f[keep[i]] ELSE none]
    IN  [pc |-> Slot(s.pc, "off"),
         item |-> Slot(s.item, NoItem),
         tmp |-> Slot(s.tmp, 0)]

\* _scale of data_validator; the list is never longer than max_processes.
RECURSIVE VScale(_)
VScale(s) ==
    IF VLen(s) < min_processes THEN VScale(VScaleUp(s)) ELSE s

\* _balance_load of data_validator, given its two qsize() reads.
VBalanceLoad(s, q, q2) ==
    LET queue_shrinking == q2 < previous_queue_size
    IN  IF q > max_queue_size /\ VLen(s) < max_processes
        THEN VScaleUp(s)
        ELSE IF q < max_queue_size /\ queue_shrinking
                  /\ VLen(s) > min_processes
             THEN VScaleDown(s)
             ELSE s

VInstall(s) ==
    /\ vpc' = s.pc
    /\ vitem' = s.item
    /\ vtmp' = s.tmp

\* data_validator.autoscale() up to the first qsize() read of _balance_load:
\* prune, scale, queue_size = self.load_queue.qsize().
VAutoscale ==
    /\ vq = -1
    /\ VInstall(VScale(VPrune(VState)))
    /\ vq' = Len(unvalidated_queue)
    /\ UNCHANGED <<unvalidated_queue, validated_queue, data_count, fed, vlog,
                   vfed, vlost, previous_queue_size, notValVars>>

\* The rest of _balance_load, from its second qsize() read.
VBalance ==
    /\ vq # -1
    /\ LET s == VBalanceLoad(VState, vq, Len(unvalidated_queue))
           w == VLen(VState)
       IN  /\ VInstall(s)
           /\ vlost' = IF VLen(s) < w /\ vitem[w] # NoItem
                       THEN Append(vlost, vitem[w])
                       ELSE vlost
    /\ previous_queue_size' = vq
    /\ vq' = -1
    /\ UNCHANGED <<unvalidated_queue, validated_queue, data_count, fed, vlog,
                   vfed, notValVars>>

\* data_validator as constructed and started: min_processes validators, none
\* of which has taken an item yet.  The worker set is vpc; of the pool's
\* variables the stage uses the configuration and previous_queue_size.
InitV ==
    /\ \E n \in Validators :
         /\ Construct("LoadBalancer", "worker", n, MaxValidators, MaxFeed - 1)
         /\ vpc = [w \in Validators |-> IF w <= n THEN "get" ELSE "off"]
    /\ unvalidated_queue = <<>>
    /\ validated_queue = <<>>
    /\ vitem = [w \in Validators |-> NoItem]
    /\ vtmp = [w \in Validators |-> 0]
    /\ data_count = 0
    /\ fed = 0
    /\ vlog = <<>>
    /\ vq = -1
    /\ vfed = <<>>
    /\ vlost = <<>>
    /\ InitSink
    /\ InitHealth
    /\ InitCollector
    /\ InitMonitor

\* The validators at work on a stream of any items, the supervisor leaving
\* the pool as started.
NextV ==
    \/ FeedFrom(FeedItems)
    \/ \E w \in Validators : VGet(w)
    \/ \E w \in Validators : VCheck(w)
    \/ \E w \in Validators : VRead(w)
    \/ \E w \in Validators : VWrite(w)

SpecValidator ==
    InitV /\ [][NextV]_vars

\* One item of each fate: forwarded PRICE and HEARTBEAT, a PRICE that is
\* dropped, an item without type.
PoolItems ==
    {Item("PRICE", PriceFields, "spaced"), Item("PRICE", {}, "compact"),
     Item("HEARTBEAT", HeartbeatFields, "compact"),
     Item("none", HeartbeatFields, "compact")}

\* The validators at work while the supervisor autoscales their pool.
NextValidatorPool ==
    \/ FeedFrom(PoolItems)
    \/ \E w \in Validators : VGet(w)
    \/ \E w \in Validators : VCheck(w)
    \/ \E w \in Validators : VRead(w)
    \/ \E w \in Validators : VWrite(w)
    \/ VAutoscale
    \/ VBalance

SpecValidatorPool ==
    InitV /\ [][NextValidatorPool]_vars

\* The items of the log that were forwarded, in the order of the log.
RECURSIVE PutItems(_)
PutItems(log) ==
    IF log = <<>> THEN <<>>
    ELSE LET rest == PutItems(SubSeq(log, 1, Len(log) - 1))
             e == log[Len(log)]
         IN  IF e.fate = "put" THEN Append(rest, e.item) ELSE rest

\* The condition under which the validator is to forward an item.
Acceptable(item) ==
    /\ item.json
    /\ "type" \in item.keys
    /\ \/ /\ item.type = "PRICE"
          /\ {"time", "bids", "asks", "closeoutBid", "closeoutAsk", "status",
              "tradeable", "instrument"} \subseteq item.keys
       \/ /\ item.type = "HEARTBEAT"
          /\ "time" \in item.keys
       \/ item.type \notin {"PRICE", "HEARTBEAT"}

\* C10: a validator forwards an item it has taken if and only if the item is
\* a PRICE with all eight required fields, a HEARTBEAT with time, or of any
\* other type; the validated queue holds exactly the forwarded items, each the
\* unchanged original string.
C10_ForwardsIffValid ==
    /\ \A i \in 1..Len(vlog) :
         (vlog[i].fate = "put") <=> Acceptable(vlog[i].item)
    /\ validated_queue = PutItems(vlog)

\* C10 witness: a complete PRICE item in a layout of its own was forwarded
\* and an incomplete one was dropped.
C10_Witness ==
    /\ \E i \in 1..Len(vlog) :
         /\ vlog[i].fate = "put"
         /\ vlog[i].item.type = "PRICE"
         /\ vlog[i].item.fmt = "spaced"
    /\ \E i \in 1..Len(vlog) :
         /\ vlog[i].fate = "continue"
         /\ vlog[i].item.type = "PRICE"

\* C11 as claimed: a validator that takes a decodable item failing a
\* required-field check, the check for the field type included, drops that
\* item and goes on with its loop.
C11_FailureNeverStopsWorker ==
    \A i \in 1..Len(vlog) :
        (vlog[i].item.json /\ ~Acceptable(vlog[i].item))
            => vlog[i].fate = "continue"

\* The number of times x occurs in seq.
Count(seq, x) ==
    Cardinality({i \in 1..Len(seq) : seq[i] = x})

\* No validator has ended with an exception.
NoCrashV ==
    \A i \in 1..Len(vlog) : vlog[i].fate # "raise"

\* The copies of item x that are on the unvalidated queue, held by a
\* validator, on the validated queue, or dropped by validation.
Whereabouts(x) ==
    Count(unvalidated_queue, x)
        + Cardinality({w \in Validators : vitem[w] = x})
        + Count(validated_queue, x)
        + Cardinality({i \in 1..Len(vlog) :
                          vlog[i].fate = "continue" /\ vlog[i].item = x})

\* C12 as claimed: while no process crashes and the supervisor autoscales the
\* validators, every item put on the unvalidated queue is, exactly once, on
\* its way through the stage, forwarded unchanged, or dropped by validation.
C12_EveryItemOnce ==
    NoCrashV => \A x \in FeedItems : Count(vfed, x) = Whereabouts(x)

\* C12 amended: while no process crashes, every item put on the unvalidated
\* queue is, exactly once, on its way through the stage, forwarded unchanged,
\* dropped by validation, or lost with the validator that held it when the
\* supervisor's scale-down terminated it.
C12_OnceUnlessTerminated ==
    NoCrashV =>
        \A x \in FeedItems : Count(vfed, x) = Whereabouts(x) + Count(vlost, x)

\* C12 witness: with no crash, one item was forwarded and another was lost
\* with a validator that the supervisor terminated.
C12_Witness ==
    /\ NoCrashV
    /\ vlost # <<>>
    /\ \E i \in 1..Len(vlog) : vlog[i].fate = "put"

-----------------------------------------------------------------------------
\* The sink (services/terminus/Terminus.py: DBPipeline).

\* The frames that arrive on an intake port: a complete PRICE frame in a
\* layout of its own, a PRICE frame without instrument, a HEARTBEAT, a frame
\* of another type, a frame without type, and a frame that is not JSON.
SinkFrames ==
    {Item("PRICE", PriceFields, "spaced"),
     Item("PRICE", PriceFields \ {"instrument"}, "compact"),
     Item("HEARTBEAT", HeartbeatFields, "compact"),
     Item("OTHER", {}, "compact"),
     Item("none", HeartbeatFields, "compact"),
     NotJson}

\* The fields process_data reads from a PRICE datapoint.
DerivedFields ==
    {"instrument", "time", "closeoutBid", "closeoutAsk", "status", "tradeable"}

\* datapoint[k]: the value under key k, written as the key itself.
Field(datapoint, k) ==
    IF k \in datapoint.keys THEN k ELSE "KeyError"

\* db_packet_raw with the datapoint encoded again in place of the frame.
RawPacketDecoded(frame, t) ==
    [dest |-> "raw",
     data |-> [time |-> t,
               data |-> IF frame.json THEN Dumps(Loads(frame)) ELSE frame]]

\* db_packet_raw: {"dest": "raw", "data": {"time": utcnow(), "data": frame}}
RawPacket(frame, t) ==
    [dest |-> "raw", data |-> [time |-> t, data |-> frame]]

\* db_packet with bid and ask taken from each other's field.
DerivedPacketSwapped(datapoint) ==
    [dest |-> Field(datapoint, "instrument"),
     data |-> [time |-> <<"parsed", Field(datapoint, "time")>>,
               bid |-> Field(datapoint, "closeoutAsk"),
               ask |-> Field(datapoint, "closeoutBid"),
               status |-> Field(datapoint, "status"),
               tradeable |-> Field(datapoint, "tradeable"),
               instrument |-> Field(datapoint, "instrument")]]

\* db_packet of a PRICE datapoint
DerivedPacket(datapoint) ==
    [dest |-> Field(datapoint, "instrument"),
     data |-> [time |-> <<"parsed", Field(datapoint, "time")>>,
               bid |-> Field(datapoint, "closeoutBid"),
               ask |-> Field(datapoint, "closeoutAsk"),
               status |-> Field(datapoint, "status"),
               tradeable |-> Field(datapoint, "tradeable"),
               instrument |-> Field(datapoint, "instrument")]]

\* What process_data does with a frame after it has put the raw packet, from
\* json.loads on: the packets it puts, or the exception that ends the worker.
Processed(frame) ==
    IF ~frame.json THEN [fate |-> "raise", out |-> <<>>]
    ELSE LET datapoint == Loads(frame)
         IN  IF "type" \notin datapoint.keys
             THEN [fate |-> "raise", out |-> <<>>]
             ELSE IF datapoint.type = "PRICE"
                  THEN IF DerivedFields \subseteq datapoint.keys
                       THEN [fate |-> "done",
                             out |-> <<DerivedPacket(datapoint)>>]
                       ELSE [fate |-> "raise", out |-> <<>>]
                  ELSE [fate |-> "done", out |-> <<>>]

\* recent_data.append on a deque that never drops its oldest element.
RingAppendUnbounded(ring, packet) ==
    Append(ring, packet)

\* self.recent_data.append(db_packet) on a deque(maxlen): at maxlen the
\* oldest element leaves.
RingAppendEvict(ring, packet) ==
    IF ring = <<>> THEN <<packet>>
    ELSE Append(Tail(ring), packet)

RingAppend(ring, packet) ==
    IF Len(ring) < maxlen THEN Append(ring, packet)
    ELSE Append(Tail(ring), packet)

\* db_packet compared with the newest element of the ring alone.
InRingLast(ring, packet) ==
    Len(ring) > 0 /\ ring[Len(ring)] = packet

\* db_packet in self.recent_data: equality of the whole packet.
InRing(ring, packet) ==
    \E i \in 1..Len(ring) : ring[i] = packet

\* The outcomes of collection.insert_one.
InsertOutcomes ==
    {"ok", "OperationFailure", "ConnectionFailure"}

\* The clock of the host advances.
Tick ==
    /\ now < MaxClock
    /\ now' = now + 1
    /\ UNCHANGED <<data_queue, processed_queue, write_queue, ppc, pframe,
                   recent_data, duplicate_count, action_count, rpc, rpacket,
                   db, injected, processor_count, recorder_count, plog,
                   stream, rtaken, poolVars, valVars, healthVars,
                   restVars, terminus_main>>

\* read_data: an intake thread receives a frame and puts it on the data
\* queue.
ReadData ==
    /\ injected < MaxFrames
    /\ \E frame \in SinkFrames : data_queue' = Append(data_queue, frame)
    /\ injected' = injected + 1
    /\ UNCHANGED <<now, processed_queue, write_queue, ppc, pframe,
                   recent_data, duplicate_count, action_count, rpc, rpacket,
                   db, processor_count, recorder_count, plog, stream, rtaken,
                   poolVars, valVars, healthVars,
                   restVars, terminus_main>>

\* process_data: datapoint = data_queue.get()
PGet(w) ==
    /\ ppc[w] = "get"
    /\ data_queue # <<>>
    /\ pframe' = [pframe EXCEPT ![w] = Head(data_queue)]
    /\ data_queue' = Tail(data_queue)
    /\ ppc' = [ppc EXCEPT ![w] = "raw"]
    /\ UNCHANGED <<now, processed_queue, write_queue, recent_data,
                   duplicate_count, action_count, rpc, rpacket, db, injected,
                   processor_count, recorder_count, plog, stream, rtaken,
                   poolVars, valVars, healthVars,
                   restVars, terminus_main>>

\* process_data: the raw packet is built and put on the processed queue.
PRaw(w) ==
    /\ ppc[w] = "raw"
    /\ processed_queue' = Append(processed_queue, RawPacket(pframe[w], now))
    /\ ppc' = [ppc EXCEPT ![w] = "decode"]
    /\ UNCHANGED <<now, data_queue, write_queue, pframe, recent_data,
                   duplicate_count, action_count, rpc, rpacket, db, injected,
                   processor_count, recorder_count, plog, stream, rtaken,
                   poolVars, valVars, healthVars,
                   restVars, terminus_main>>

\* process_data: json.loads, the derived packet of a PRICE frame, the
\* telemetry; an exception ends the worker.
PDecode(w) ==
    /\ ppc[w] = "decode"
    /\ LET p == Processed(pframe[w])
       IN  /\ processed_queue' = processed_queue \o p.out
           /\ ppc' = [ppc EXCEPT ![w] =
                         IF p.fate = "done" THEN "get" ELSE "dead"]
           /\ processor_count' =
                 IF p.fate = "done" THEN processor_count + 1
                 ELSE processor_count
           /\ plog' = Append(plog, [frame |-> pframe[w], fate |-> p.fate,
                                    out |-> p.out])
    /\ pframe' = [pframe EXCEPT ![w] = NoItem]
    /\ UNCHANGED <<now, data_queue, write_queue, recent_data,
                   duplicate_count, action_count, rpc, rpacket, db, injected,
                   recorder_count, stream, rtaken, poolVars, valVars, healthVars,
                   restVars, terminus_main>>

\* deduplicate_data: one round of its loop.
Deduplicate ==
    /\ processed_queue # <<>>
    /\ LET db_packet == Head(processed_queue)
       IN  /\ processed_queue' = Tail(processed_queue)
           /\ IF ~InRing(recent_data, db_packet)
              THEN /\ recent_data' = RingAppend(recent_data, db_packet)
                   /\ write_queue' = Append(write_queue, db_packet)
                   /\ duplicate_count' = duplicate_count
              ELSE /\ duplicate_count' = duplicate_count + 1
                   /\ UNCHANGED <<recent_data, write_queue>>
           /\ stream' = Append(stream, db_packet)
    /\ action_count' = action_count + 1
    /\ UNCHANGED <<now, data_queue, ppc, pframe, rpc, rpacket, db, injected,
                   processor_count, recorder_count, plog, rtaken, poolVars,
                   valVars, healthVars,
                   restVars, terminus_main>>

\* write_data: db_packet = write_queue.get()
RGet(r) ==
    /\ rpc[r] = "get"
    /\ write_queue # <<>>
    /\ rpacket' = [rpacket EXCEPT ![r] = Head(write_queue)]
    /\ write_queue' = Tail(write_queue)
    /\ rtaken' = Append(rtaken, Head(write_queue))
    /\ rpc' = [rpc EXCEPT ![r] = "insert"]
    /\ UNCHANGED <<now, data_queue, processed_queue, ppc, pframe,
                   recent_data, duplicate_count, action_count, db, injected,
                   processor_count, recorder_count, plog, stream, poolVars,
                   valVars, healthVars,
                   restVars, terminus_main>>

\* write_data: collection.insert_one(datapoint).  OperationFailure is caught
\* and logged; any other exception ends the worker.
RInsert(r) ==
    /\ rpc[r] = "insert"
    /\ \E outcome \in InsertOutcomes :
         /\ db' = IF outcome = "ok" THEN Append(db, rpacket[r]) ELSE db
         /\ rpc' = [rpc EXCEPT ![r] =
                       IF outcome = "ConnectionFailure" THEN "dead" ELSE "get"]
         /\ recorder_count' =
               IF outcome = "ConnectionFailure" THEN recorder_count
               ELSE recorder_count + 1
    /\ rpacket' = [rpacket EXCEPT ![r] = NoPacket]
    /\ UNCHANGED <<now, data_queue, processed_queue, write_queue, ppc, pframe,
                   recent_data, duplicate_count, action_count, injected,
                   processor_count, plog, stream, rtaken, poolVars, valVars, healthVars,
                   restVars, terminus_main>>

InitS ==
    /\ Construct("LoadBalancer", "worker", DefaultMinProcesses,
                 DefaultMinProcesses, MaxDepth - 1)
    /\ InitValidator
    /\ InitSink
    /\ InitHealth
    /\ InitCollector
    /\ InitMonitor

\* The loop of the sink's __main__ after pipeline.start(): it logs the
\* sizes of the three queues and the telemetry of the three stages.  It calls
\* nothing of the processor or recorder pool.
TerminusMainLog ==
    /\ terminus_main = "log"
    /\ terminus_main' = "sleep"
    /\ UNCHANGED <<now, data_queue, processed_queue, write_queue, ppc, pframe,
                   recent_data, duplicate_count, action_count, rpc, rpacket,
                   db, injected, processor_count, recorder_count, plog,
                   stream, rtaken, poolVars, valVars, healthVars, restVars>>

\* time.sleep(1) of the loop, after which it logs again.
TerminusMainSleep ==
    /\ terminus_main = "sleep"
    /\ terminus_main' = "log"
    /\ UNCHANGED <<now, data_queue, processed_queue, write_queue, ppc, pframe,
                   recent_data, duplicate_count, action_count, rpc, rpacket,
                   db, injected, processor_count, recorder_count, plog,
                   stream, rtaken, poolVars, valVars, healthVars, restVars>>

NextSink ==
    \/ Tick
    \/ ReadData
    \/ \E w \in Processors : PGet(w)
    \/ \E w \in Processors : PRaw(w)
    \/ \E w \in Processors : PDecode(w)
    \/ Deduplicate
    \/ \E r \in Recorders : RGet(r)
    \/ \E r \in Recorders : RInsert(r)

SpecSink ==
    InitS /\ [][NextSink]_vars

\* The sink with its main loop, which runs for as long as the program does,
\* as do its workers and threads while they have something to do.
NextTerminus ==
    \/ TerminusMainLog
    \/ TerminusMainSleep
    \/ Tick
    \/ ReadData
    \/ \E w \in Processors : PGet(w)
    \/ \E w \in Processors : PRaw(w)
    \/ \E w \in Processors : PDecode(w)
    \/ Deduplicate
    \/ \E r \in Recorders : RGet(r)
    \/ \E r \in Recorders : RInsert(r)

SpecTerminus ==
    /\ InitS
    /\ [][NextTerminus]_vars
    /\ WF_vars(TerminusMainLog)
    /\ WF_vars(TerminusMainSleep)
    /\ WF_vars(Deduplicate)
    /\ \A w \in Processors :
         WF_vars(PGet(w)) /\ WF_vars(PRaw(w)) /\ WF_vars(PDecode(w))
    /\ \A r \in Recorders : WF_vars(RGet(r)) /\ WF_vars(RInsert(r))

\* The deduplicator and the recorders on any stream of packets.

\* The packets of the stream: the raw packets of two frames read at the same
\* time, and the derived packet of a PRICE frame.
DedupPackets ==
    {RawPacket(Item("HEARTBEAT", HeartbeatFields, "compact"), 0),
     RawPacket(Item("OTHER", {}, "compact"), 0),
     DerivedPacket(Loads(Item("PRICE", PriceFields, "compact")))}

\* processed_queue.put(db_packet) by a processor, whatever the packet.
Produce ==
    /\ Len(stream) + Len(processed_queue) < MaxStream
    /\ \E db_packet \in DedupPackets :
         processed_queue' = Append(processed_queue, db_packet)
    /\ UNCHANGED <<now, data_queue, write_queue, ppc, pframe, recent_data,
                   duplicate_count, action_count, rpc, rpacket, db, injected,
                   processor_count, recorder_count, plog, stream, rtaken,
                   poolVars, valVars, healthVars,
                   restVars, terminus_main>>

NextDedup ==
    \/ Produce
    \/ Deduplicate
    \/ \E r \in Recorders : RGet(r)
    \/ \E r \in Recorders : RInsert(r)

SpecDedup ==
    InitS /\ [][NextDedup]_vars

-----------------------------------------------------------------------------
\* Properties of the sink.

\* Every packet put on the processed queue so far, in order.
Put ==
    stream \o processed_queue

\* Every packet put on the write queue so far, in order.
ForwardedAll ==
    rtaken \o write_queue

\* The raw packets put so far that carry frame f.
RawPut(f) ==
    Cardinality({i \in 1..Len(Put) :
                    Put[i].dest = "raw" /\ Put[i].data.data = f})

\* The frames f a processor took and has got past its put of the raw packet
\* with: finished with, or about to decode.
PastRaw(f) ==
    Cardinality({i \in 1..Len(plog) : plog[i].frame = f})
        + Cardinality({w \in Processors : ppc[w] = "decode" /\ pframe[w] = f})

\* C13: for every frame a processor has taken, whatever its content, exactly
\* one raw packet {dest: raw, data: {time, data: frame}} with the frame
\* unchanged has been put on the processed queue by the time the processor
\* decodes the frame, and no other raw packet is ever put.
C13_OneRawPacketPerFrame ==
    /\ \A f \in SinkFrames : RawPut(f) = PastRaw(f)
    /\ \A i \in 1..Len(Put) :
         Put[i].dest = "raw" =>
             /\ Put[i].data.data \in SinkFrames
             /\ Put[i].data.time \in 0..MaxClock
    /\ \A w \in Processors : ppc[w] = "get" => pframe[w] = NoItem

\* C13 witness: a processor has put the raw packet of a PRICE frame written
\* in a layout of its own and the raw packet of a frame that is not JSON, on
\* which it then ended.
C13_Witness ==
    /\ \E i \in 1..Len(plog) :
         plog[i].frame = Item("PRICE", PriceFields, "spaced")
    /\ \E i \in 1..Len(plog) :
         plog[i].frame = NotJson /\ plog[i].fate = "raise"
    /\ RawPut(NotJson) = 1
    /\ RawPut(Item("PRICE", PriceFields, "spaced")) = 1

\* The derived packet of a PRICE frame, field by field.
ExpectedDerived ==
    [dest |-> "instrument",
     data |-> [time |-> <<"parsed", "time">>, bid |-> "closeoutBid",
               ask |-> "closeoutAsk", status |-> "status",
               tradeable |-> "tradeable", instrument |-> "instrument"]]

\* The frames of the given type that processors have finished with.
Finished(type) ==
    {i \in 1..Len(plog) : plog[i].frame.json /\ plog[i].frame.type = type}

C15_DedupRound ==
    /\ [](/\ action_count = Len(ForwardedAll) + duplicate_count
          /\ action_count = Len(stream)
          /\ Len(recent_data) <= maxlen)
    /\ [][stream' # stream =>
            LET db_packet == stream'[Len(stream')]
            IN  /\ action_count' = action_count + 1
                /\ IF db_packet \in Range(recent_data)
                   THEN /\ duplicate_count' = duplicate_count + 1
                        /\ write_queue' = write_queue
                        /\ recent_data' = recent_data
                   ELSE /\ duplicate_count' = duplicate_count
                        /\ write_queue' = Append(write_queue, db_packet)
                        /\ recent_data'[Len(recent_data')] = db_packet
                        /\ Range(recent_data') \subseteq
                               Range(recent_data) \cup {db_packet}]_vars

\* C15 witness: the deduplicator has found a duplicate and has forwarded more
\* packets than the ring holds, the ring being full.
C15_Witness ==
    /\ duplicate_count >= 1
    /\ Len(recent_data) = maxlen
    /\ Len(ForwardedAll) > maxlen

\* Packet i of s equals one of the maxlen packets before it in s.
SeenBefore(s, i) ==
    \E j \in 1..(i - 1) : j >= i - maxlen /\ s[j] = s[i]

\* Any two packets of s fewer than maxlen places apart are different.
DistinctInWindows(s) ==
    \A i, j \in 1..Len(s) : (i < j /\ j - i < maxlen) => s[i] # s[j]

\* C16 as claimed: with M the number of packets of the stream equal to one of
\* the maxlen packets of the stream before them, Len(stream) - M packets were
\* forwarded, duplicate_count is M, and the forwarded packets are pairwise
\* distinct within any window of maxlen.
C16_StreamWindow ==
    LET M == Cardinality({i \in 1..Len(stream) : SeenBefore(stream, i)})
    IN  /\ Len(ForwardedAll) = Len(stream) - M
        /\ duplicate_count = M
        /\ DistinctInWindows(ForwardedAll)

\* The packets of s that are not equal to one of the last maxlen packets
\* admitted before them.
RECURSIVE Admitted(_)
Admitted(s) ==
    IF s = <<>> THEN <<>>
    ELSE LET a == Admitted(SubSeq(s, 1, Len(s) - 1))
             db_packet == s[Len(s)]
             first == IF Len(a) > maxlen THEN Len(a) - maxlen + 1 ELSE 1
         IN  IF db_packet \in Range(SubSeq(a, first, Len(a)))
             THEN a
             ELSE Append(a, db_packet)

\* C16 amended: the packets forwarded are those of the stream that are not
\* equal to one of the last maxlen packets forwarded before them (duplicates
\* do not enter the ring and so do not age its members); duplicate_count is
\* the number of the others, and the forwarded packets are pairwise distinct
\* within any window of maxlen forwarded packets.
C16_RingWindow ==
    /\ ForwardedAll = Admitted(stream)
    /\ duplicate_count = Len(stream) - Len(Admitted(stream))
    /\ DistinctInWindows(ForwardedAll)

\* C16 witness: the deduplicator has discarded a packet that equals none of
\* the maxlen packets of the stream before it.
C16_Witness ==
    \E i \in 1..Len(stream) :
        /\ ~SeenBefore(stream, i)
        /\ stream[i] \in Range(SubSeq(stream, 1, i - 1))
        /\ duplicate_count >
               Cardinality({j \in 1..Len(stream) : SeenBefore(stream, j)})

\* C17 as claimed: when the sink has received the same complete PRICE frame
\* k times and nothing else, k being within the ring's length, and all of it
\* has passed the deduplicator, k raw packets and one derived packet were
\* forwarded and duplicate_count is k - 1, whatever the times at which the
\* frames were read.
C17_RepeatedPriceFrame ==
    \A f \in SinkFrames :
        (/\ f.type = "PRICE"
         /\ DerivedFields \subseteq f.keys
         /\ Len(plog) >= 1
         /\ Len(plog) <= maxlen
         /\ \A i \in 1..Len(plog) : plog[i].frame = f
         /\ injected = Len(plog)
         /\ processed_queue = <<>>)
        => /\ Cardinality({i \in 1..Len(ForwardedAll) :
                              ForwardedAll[i].dest = "raw"}) = Len(plog)
           /\ Count(ForwardedAll, ExpectedDerived) = 1
           /\ duplicate_count = Len(plog) - 1

\* C18 as claimed: no error raised by insert_one ends a recorder worker.
C18_InsertErrorNeverStopsRecorder ==
    \A r \in Recorders : rpc[r] # "dead"

-----------------------------------------------------------------------------
\* The health of the collector (Mercury.py: update_health, collect_data;
\* HealthPublisher.py: run).

\* int(timestamp) of a timestamp given in ticks
Floor(t) ==
    t \div TicksPerSecond

\* The test of HealthPublisher.run on the timestamps as they are.
ChangedExact(timestamp, prev) ==
    timestamp # prev

\* int(self.health['timestamp']) != int(self.prev_message_id)
Changed(timestamp, prev) ==
    Floor(timestamp) # Floor(prev)

\* The line a stream reader receives.
StreamItems ==
    {Item("HEARTBEAT", HeartbeatFields, "compact")}

\* time.time() advances.
Clock ==
    /\ time_now < MaxTime
    /\ time_now' = time_now + 1
    /\ UNCHANGED <<health, health_before, upc, prev_message_id, hpc, hseen,
                   published, collection_count, cpc, ctmp, creads, poolVars,
                   valVars, sinkVars,
                   restVars>>

\* update_health: the entries of the pools, with the action counts read from
\* the telemetry dicts.
UpdateHealthCounts ==
    /\ upc = "counts"
    /\ health' = [health EXCEPT !.action_count = collection_count,
                              !.keys = (@ \cap {"timestamp"})
                                           \cup ComputedKeys]
    /\ health_before' = health.action_count
    /\ upc' = "timestamp"
    /\ UNCHANGED <<time_now, prev_message_id, hpc, hseen, published,
                   collection_count, cpc, ctmp, creads, poolVars, valVars,
                   sinkVars,
                   restVars>>

\* update_health: self.health["timestamp"] = time.time()
UpdateHealthTimestamp ==
    /\ upc = "timestamp"
    /\ health' = [health EXCEPT !.timestamp = time_now]
    /\ upc' = "counts"
    /\ UNCHANGED <<time_now, health_before, prev_message_id, hpc, hseen,
                   published, collection_count, cpc, ctmp, creads, poolVars,
                   valVars, sinkVars,
                   restVars>>

\* HealthPublisher.run: the test of its loop; when it fails the thread
\* sleeps and tests again.
PublisherTest ==
    /\ hpc = "test"
    /\ hseen' = health.timestamp
    /\ hpc' = IF Changed(health.timestamp, prev_message_id)
              THEN "publish" ELSE "test"
    /\ UNCHANGED <<time_now, health, health_before, upc, prev_message_id,
                   published, collection_count, cpc, ctmp, creads, poolVars,
                   valVars, sinkVars,
                   restVars>>

\* HealthPublisher.publish: self.s.send_json(self.health)
PublisherPublish ==
    /\ hpc = "publish"
    /\ published' = Append(published,
                           [timestamp |-> health.timestamp,
                            action_count |-> health.action_count,
                            keys |-> health.keys,
                            seen |-> hseen, prev |-> prev_message_id])
    /\ hpc' = "record"
    /\ UNCHANGED <<time_now, health, health_before, upc, prev_message_id,
                   hseen, collection_count, cpc, ctmp, creads, poolVars,
                   valVars, sinkVars,
                   restVars>>

\* HealthPublisher.run: self.prev_message_id = self.health['timestamp']
PublisherRecord ==
    /\ hpc = "record"
    /\ prev_message_id' = health.timestamp
    /\ hpc' = "test"
    /\ UNCHANGED <<time_now, health, health_before, upc, hseen, published,
                   collection_count, cpc, ctmp, creads, poolVars, valVars,
                   sinkVars,
                   restVars>>

\* collect_data: queue.put(price.decode("utf-8"))
ReaderPut(w) ==
    /\ cpc[w] = "put"
    /\ creads < MaxReads
    /\ \E item \in StreamItems :
         unvalidated_queue' = Append(unvalidated_queue, item)
    /\ creads' = creads + 1
    /\ cpc' = [cpc EXCEPT ![w] = "read"]
    /\ UNCHANGED <<time_now, health, health_before, upc, prev_message_id,
                   hpc, hseen, published, collection_count, ctmp,
                   validated_queue, vpc, vitem, vtmp, data_count, fed, vlog,
                   vq, vfed, vlost, poolVars, sinkVars,
                   restVars>>

\* collect_data: telemetry["data_count"] += 1, the read of the shared dict
ReaderRead(w) ==
    /\ cpc[w] = "read"
    /\ ctmp' = [ctmp EXCEPT ![w] = collection_count]
    /\ cpc' = [cpc EXCEPT ![w] = "write"]
    /\ UNCHANGED <<time_now, health, health_before, upc, prev_message_id,
                   hpc, hseen, published, collection_count, creads, poolVars,
                   valVars, sinkVars,
                   restVars>>

\* collect_data: telemetry["data_count"] += 1, the write to the shared dict
ReaderWrite(w) ==
    /\ cpc[w] = "write"
    /\ collection_count' = ctmp[w] + 1
    /\ ctmp' = [ctmp EXCEPT ![w] = 0]
    /\ cpc' = [cpc EXCEPT ![w] = "put"]
    /\ UNCHANGED <<time_now, health, health_before, upc, prev_message_id,
                   hpc, hseen, published, creads, poolVars, valVars,
                   sinkVars,
                   restVars>>

InitH ==
    /\ Construct("ScalableGroup", "worker", ReaderMinProcesses,
                 ReaderMinProcesses, 0)
    /\ InitValidator
    /\ InitSink
    /\ InitHealth
    /\ InitCollector
    /\ InitMonitor

NextHealth ==
    \/ Clock
    \/ UpdateHealthCounts
    \/ UpdateHealthTimestamp
    \/ PublisherTest
    \/ PublisherPublish
    \/ PublisherRecord
    \/ \E w \in Readers : ReaderPut(w)
    \/ \E w \in Readers : ReaderRead(w)
    \/ \E w \in Readers : ReaderWrite(w)

SpecHealth ==
    InitH /\ [][NextHealth]_vars

\* C19: the publisher sends a snapshot only after a test in which the floor
\* of health.timestamp differed from the floor of the timestamp it recorded
\* at its previous publication; however update_health interleaves, the
\* timestamps of the snapshots sent never decrease and no two snapshots sent
\* have the same floor of the timestamp.
C19_PublishedOncePerSecond ==
    /\ \A i \in 1..Len(published) :
         Floor(published[i].seen) # Floor(published[i].prev)
    /\ \A i, j \in 1..Len(published) :
         i < j => /\ published[i].timestamp <= published[j].timestamp
                  /\ Floor(published[i].timestamp)
                         # Floor(published[j].timestamp)

\* C19 witness: update_health has changed the timestamp between the
\* publisher's test and its send, and again before the publisher recorded
\* the timestamp; a second snapshot was sent after that.
C19_Witness ==
    /\ Len(published) >= 2
    /\ \E i \in 1..Len(published) :
         published[i].seen # published[i].timestamp
    /\ \E i \in 2..Len(published) :
         published[i].prev # published[i - 1].timestamp

\* C20 as claimed: the action_count of the stream readers that update_health
\* reads into the health snapshot is never below the one it read the time
\* before.
C20_ActionCountNeverDecreases ==
    health_before <= health.action_count

\* The keys of a complete HealthSnapshot.
SnapshotKeys ==
    {"timestamp", "server.uptime",
     "data_collector.num_processes", "data_collector.action_count",
     "data_validator.num_processes", "data_validator.action_count",
     "data_validator.queue_size", "data_pusher.num_processes",
     "data_pusher.action_count", "data_pusher.queue_size"}

\* C21 as claimed: every message sent on the health PUB socket, the first
\* one included, has exactly the keys of a complete HealthSnapshot, as
\* update_health computes them.
C21_EverySnapshotComplete ==
    \A i \in 1..Len(published) : published[i].keys = SnapshotKeys

-----------------------------------------------------------------------------
\* The pools of the collector under failure.

\* The last completed call was an autoscale() of a pool started once that
\* found exactly one worker exited in its set of min_processes to
\* max_processes workers.
ReplacedOne ==
    /\ obs.op = "autoscale"
    /\ obs.ok
    /\ Started
    /\ Cardinality(obs.dead) = 1
    /\ min_processes <= Len(obs.before)
    /\ Len(obs.before) <= max_processes

\* C22 as claimed: when one worker of a pool has exited, after the next
\* autoscale() of the pool the live workers are at least as many as the
\* workers were before the exit, whatever that number between min_processes
\* and max_processes.
C22_DeadWorkerRespawned ==
    ReplacedOne => Live >= Len(obs.before)

\* C22 amended: after an autoscale() of a running pool no exited worker is
\* left in the set, every worker of the set is alive and they are at least
\* min_processes; so a worker that exited from a pool of at most
\* min_processes workers is replaced, and one that exited from a larger pool
\* is replaced only as far as min_processes requires.
C22_RespawnedUpToMin ==
    (obs.op = "autoscale" /\ obs.ok) =>
        /\ obs.dead \cap Range(processes) = {}
        /\ Range(processes) \subseteq alive
        /\ Live >= min_processes
        /\ (Len(obs.before) <= min_processes => Live >= Len(obs.before))

\* C22 witness: a running LoadBalancer of min_processes workers, two or
\* more, has lost one and the next autoscale() has brought it back to as
\* many live workers, one of them new.
C22_Witness ==
    /\ ReplacedOne
    /\ kind = "LoadBalancer"
    /\ Len(obs.before) = min_processes
    /\ min_processes >= 2
    /\ Live >= Len(obs.before)
    /\ Range(processes) \ Range(obs.before) # {}

-----------------------------------------------------------------------------
\* The main program of the collector (Mercury.py: __main__, DataCollector
\* start, run, tick, autoscale, push_data) and its three pools.  Of a worker
\* the pool keeps its state st ("starting": a pusher that has yet to bind,
\* "bound": a pusher in its loop, "run": another worker at work, "dead": its
\* process has ended), whether it took an item from its queue and whether
\* its bind failed.

\* _create_process and Process.start() from pool p
NewWorker(p) ==
    [st |-> IF p = "data_pusher" THEN "starting" ELSE "run",
     took |-> FALSE, bindfail |-> FALSE]

\* _scale_up
PoolScaleUp(p, pl) ==
    [pl EXCEPT !.processes = Append(@, NewWorker(p))]

\* _scale_down: the last process is popped, terminated and joined.
PoolScaleDown(pl) ==
    [pl EXCEPT !.processes = SubSeq(@, 1, Len(@) - 1)]

\* _prune
PoolPrune(pl) ==
    [pl EXCEPT !.processes = SelectSeq(@, LAMBDA w : w.st # "dead")]

RECURSIVE PoolScaleUpTo(_, _, _)
PoolScaleUpTo(p, pl, n) ==
    IF Len(pl.processes) < n
    THEN PoolScaleUpTo(p, PoolScaleUp(p, pl), n)
    ELSE pl

RECURSIVE PoolScaleDownTo(_, _)
PoolScaleDownTo(pl, n) ==
    IF Len(pl.processes) > n THEN PoolScaleDownTo(PoolScaleDown(pl), n) ELSE pl

\* _scale
PoolScale(p, pl) ==
    PoolScaleDownTo(PoolScaleUpTo(p, pl, PoolMin(p)), PoolMax(p))

\* LoadBalancer._balance_load with its two qsize() reads q and q2
PoolBalanceLoad(p, pl, q, q2) ==
    LET queue_shrinking == q2 < pl.previous_queue_size
        b == IF q > PoolMaxQueue /\ Len(pl.processes) < PoolMax(p)
             THEN PoolScaleUp(p, pl)
             ELSE IF q < PoolMaxQueue /\ queue_shrinking
                       /\ Len(pl.processes) > PoolMin(p)
                  THEN PoolScaleDown(pl)
                  ELSE pl
    IN  [b EXCEPT !.previous_queue_size = q]

\* autoscale() of pool p, a running pool
PoolAutoscale(p, pl, q, q2) ==
    LET b == PoolScale(p, PoolPrune(pl))
    IN  IF IsBalancer(p) THEN PoolBalanceLoad(p, b, q, q2) ELSE b

\* start()
PoolStart(p, pl) ==
    PoolScaleUpTo(p, [pl EXCEPT !.is_running = TRUE],
                  Len(pl.processes) + PoolMin(p))

\* stop()
PoolStop(pl) ==
    [PoolScaleDownTo(pl, 0) EXCEPT !.stopped = TRUE]

\* The daemon processes of a pool when the main program exits: they are
\* terminated.
PoolAtExit(pl) ==
    [pl EXCEPT !.processes = [i \in 1..Len(@) |-> [@[i] EXCEPT !.st = "dead"]]]

\* The except clause of __main__: data_validator.stop() and
\* data_collector.stop(); then the program ends.
InterruptHandler ==
    [p \in Pools |->
       PoolAtExit(IF p \in {"data_validator", "data_collector"}
                  THEN PoolStop(pool[p]) ELSE pool[p])]

\* DataCollector(account, cfg, logging_queue): the pools are constructed,
\* then HealthPublisher.__init__ binds the PUB socket; a ZMQError of the bind
\* leaves the constructor and the program.
MainConstruct ==
    /\ main = "construct"
    /\ \E ok \in BOOLEAN :
         /\ pub' = IF ok THEN "bound" ELSE "failed"
         /\ main' = IF ok THEN "constructed" ELSE "crashed"
    /\ UNCHANGED <<pool, tick_number, updated, poolVars, valVars, sinkVars,
                   healthVars, monVars>>

\* collector.run() up to its loop: start(); tick_number = 1
MainStart ==
    /\ main = "constructed"
    /\ main' = "ticking"
    /\ pool' = [p \in Pools |-> PoolStart(p, pool[p])]
    /\ UNCHANGED <<pub, tick_number, updated, poolVars, valVars, sinkVars,
                   healthVars, monVars>>

\* The collector is in the loop of run().
Running ==
    main \in {"ticking", "updating"}

\* One round of the loop of run() up to its inner loop: tick(tick_number),
\* which with an even tick_number calls autoscale() of the pushers, of the
\* validators and of the stream readers; tick_number += 1; wake_time is
\* computed.  When the tick took a second or more (overrun), wake_time is
\* not in the future and the inner loop is not entered.
MainTick ==
    /\ main = "ticking"
    /\ tick_number <= MaxTickNumber
    /\ IF tick_number % 2 = 0
       THEN \E qp, qp2, qv, qv2 \in Depths :
              pool' = [p \in Pools |->
                         PoolAutoscale(p, pool[p],
                                       IF p = "data_pusher" THEN qp ELSE qv,
                                       IF p = "data_pusher" THEN qp2 ELSE qv2)]
       ELSE pool' = pool
    /\ tick_number' = tick_number + 1
    /\ \E overrun \in BOOLEAN :
         main' = IF overrun THEN "ticking" ELSE "updating"
    /\ updated' = FALSE
    /\ UNCHANGED <<pub, poolVars, valVars, sinkVars, healthVars, monVars>>

\* The inner loop of run(): update_health()
MainUpdateHealth ==
    /\ main = "updating"
    /\ health' = [timestamp |-> time_now, action_count |-> collection_count,
                  keys |-> (health.keys \cap {"timestamp"}) \cup ComputedKeys]
    /\ health_before' = health.action_count
    /\ updated' = TRUE
    /\ UNCHANGED <<main, pub, pool, tick_number, time_now, upc,
                   prev_message_id, hpc, hseen, published, collection_count,
                   cpc, ctmp, creads, poolVars, valVars, sinkVars, monVars>>

\* The inner loop of run() ends: time.time() has reached wake_time.
MainWake ==
    /\ main = "updating"
    /\ updated
    /\ main' = "ticking"
    /\ UNCHANGED <<pub, pool, tick_number, updated, poolVars, valVars,
                   sinkVars, healthVars, monVars>>

\* KeyboardInterrupt in collector.run()
MainInterrupt ==
    /\ Running
    /\ pool' = InterruptHandler
    /\ main' = "exited"
    /\ UNCHANGED <<pub, tick_number, updated, poolVars, valVars, sinkVars,
                   healthVars, monVars>>

\* push_data up to its loop: the bind succeeds when the port is free, which
\* it is not while another pusher of the pool holds it; on ZMQError the
\* worker logs and returns.
PusherBinds(i) ==
    /\ Running
    /\ i \in 1..Len(pool["data_pusher"].processes)
    /\ pool["data_pusher"].processes[i].st = "starting"
    /\ \E free \in BOOLEAN :
         LET held == \E j \in 1..Len(pool["data_pusher"].processes) :
                        pool["data_pusher"].processes[j].st = "bound"
             ok == free /\ ~held
         IN  pool' = [pool EXCEPT !["data_pusher"].processes[i] =
                        IF ok
                        THEN [@ EXCEPT !.st = "bound"]
                        ELSE [@ EXCEPT !.st = "dead", !.bindfail = TRUE]]
    /\ UNCHANGED <<main, pub, tick_number, updated, poolVars, valVars,
                   sinkVars, healthVars, monVars>>

\* push_data in its loop: item = queue.get(); socket.send_string(item)
PusherTakes(i) ==
    /\ Running
    /\ i \in 1..Len(pool["data_pusher"].processes)
    /\ pool["data_pusher"].processes[i].st = "bound"
    /\ ~pool["data_pusher"].processes[i].took
    /\ pool' = [pool EXCEPT !["data_pusher"].processes[i].took = TRUE]
    /\ UNCHANGED <<main, pub, tick_number, updated, poolVars, valVars,
                   sinkVars, healthVars, monVars>>

\* The process of a worker ends on its own.
PoolWorkerExit(p, i) ==
    /\ Running
    /\ i \in 1..Len(pool[p].processes)
    /\ pool[p].processes[i].st \in {"run", "bound"}
    /\ pool' = [pool EXCEPT ![p].processes[i].st = "dead"]
    /\ UNCHANGED <<main, pub, tick_number, updated, poolVars, valVars,
                   sinkVars, healthVars, monVars>>

InitC ==
    /\ Construct("LoadBalancer", "push_data", CfgMin, CfgMax, MaxDepth - 1)
    /\ InitValidator
    /\ InitSink
    /\ InitHealth
    /\ InitCollector
    /\ InitMonitor

NextCollector ==
    \/ MainConstruct
    \/ MainStart
    \/ MainTick
    \/ MainUpdateHealth
    \/ MainWake
    \/ MainInterrupt
    \/ \E i \in 1..CfgMax : PusherBinds(i)
    \/ \E i \in 1..CfgMax : PusherTakes(i)
    \/ \E p \in Pools, i \in 1..(CfgMax + ReaderMinProcesses) :
         PoolWorkerExit(p, i)

SpecCollector ==
    InitC /\ [][NextCollector]_vars

\* C23 as claimed: when the main program has ended on a keyboard interrupt,
\* stop() was called on each of the three pools.
C23_InterruptStopsEveryPool ==
    main = "exited" => \A p \in Pools : pool[p].stopped

\* C24 as claimed: after a bind failure on the PUB socket the supervisor is
\* not ended by it, and a pusher whose bind failed is dead, has taken no
\* item, and is the only thing the failure ended.
C24_BindFailureEndsOnlyItsTask ==
    /\ pub = "failed" => main # "crashed"
    /\ \A i \in 1..Len(pool["data_pusher"].processes) :
         pool["data_pusher"].processes[i].bindfail =>
             /\ ~pool["data_pusher"].processes[i].took
             /\ pool["data_pusher"].processes[i].st = "dead"

-----------------------------------------------------------------------------
\* The monitor (services/salus/Salus.py: HealthDataCollection,
\* DataCollectorMonitor).  A snapshot is kept as its timestamp, the two
\* queue sizes and the action count of the stream readers; time is in
\* seconds.

\* HealthDataCollection.update with no eviction.
UpdateUnbounded(health_data, data) ==
    Append(health_data, data)

\* HealthDataCollection.update
Update(health_data, data) ==
    LET appended == Append(health_data, data)
    IN  IF Len(appended) > max_size THEN Tail(appended) ELSE appended

\* HealthDataCollection.time_since_last at time t: None, or the age of the
\* last snapshot.
time_since_last(health_data, t) ==
    IF Len(health_data) = 0
    THEN [none |-> TRUE, v |-> 0]
    ELSE [none |-> FALSE, v |-> t - health_data[Len(health_data)].timestamp]

\* HealthDataCollection.latest
latest(health_data) ==
    health_data[Len(health_data)]

\* HealthDataCollection.velocity(key = action count, past) at time t: None,
\* or the quotient num / den.
velocity(health_data, t, past) ==
    LET data == SelectSeq(health_data, LAMBDA d : d.timestamp > t - past)
    IN  IF Len(data) = 0
        THEN [none |-> TRUE, num |-> 0, den |-> 1]
        ELSE [none |-> FALSE,
              num |-> data[Len(data)].action_count - data[1].action_count,
              den |-> past]

\* num / den < x, for den > 0
Below(q, x) ==
    q.num < x * q.den

Result(index, code, message) ==
    [index |-> index, code |-> code, message |-> message]

\* status() with the test of the validator queue before that of the pusher
\* queue.
StatusValidatorFirst(index, t) ==
    LET port == health_port(index)
    IN  IF port \notin DOMAIN health_collections
           \/ time_since_last(health_collections[port], t).none
        THEN Result(index, 3, "Unknown")
        ELSE
        LET hd == health_collections[port]
            age == time_since_last(hd, t).v
            aps == velocity(hd, t, DEGRADED_WINDOW)
        IN  IF age = 0 \/ age > StaleAfter
            THEN Result(index, 2, "Error")
            ELSE IF latest(hd).data_validator_queue_size > DegradedQueueSize
            THEN Result(index, 1, "Degraded: Data validator queue size")
            ELSE IF latest(hd).data_validator_queue_size > ErrorQueueSize
            THEN Result(index, 2, "Error: Data validator queue size")
            ELSE IF latest(hd).data_pusher_queue_size > DegradedQueueSize
            THEN Result(index, 1, "Degraded: Data pusher queue size")
            ELSE IF latest(hd).data_pusher_queue_size > ErrorQueueSize
            THEN Result(index, 2, "Error: Data pusher queue size")
            ELSE IF aps.none
            THEN Result(index, -1, "TypeError")
            ELSE IF Below(aps, DEGRADED_THRESHOLD)
            THEN Result(index, 1, "Degraded: actions per second too low")
            ELSE Result(index, 0, "OK")

\* DataCollectorMonitor.status(index) at time t.  A time_since_last of 0 is
\* false in the test of the first if, like None; a velocity of None makes
\* the comparison with the threshold raise TypeError.
Status(index, t) ==
    LET port == health_port(index)
    IN  IF port \notin DOMAIN health_collections
           \/ time_since_last(health_collections[port], t).none
        THEN Result(index, 3, "Unknown")
        ELSE
        LET hd == health_collections[port]
            age == time_since_last(hd, t).v
            aps == velocity(hd, t, DEGRADED_WINDOW)
        IN  IF age # 0 /\ age > StaleAfter
            THEN Result(index, 2, "Error")
            ELSE IF age = 0
            THEN Result(index, 2, "Error")
            ELSE IF latest(hd).data_pusher_queue_size > DegradedQueueSize
            THEN Result(index, 1, "Degraded: Data pusher queue size")
            ELSE IF latest(hd).data_pusher_queue_size > ErrorQueueSize
            THEN Result(index, 2, "Error: Data pusher queue size")
            ELSE IF latest(hd).data_validator_queue_size > DegradedQueueSize
            THEN Result(index, 1, "Degraded: Data validator queue size")
            ELSE IF latest(hd).data_validator_queue_size > ErrorQueueSize
            THEN Result(index, 2, "Error: Data validator queue size")
            ELSE IF aps.none
            THEN Result(index, -1, "TypeError")
            ELSE IF Below(aps, DEGRADED_THRESHOLD)
            THEN Result(index, 1, "Degraded: actions per second too low")
            ELSE Result(index, 0, "OK")

\* The snapshots of a collector as the monitor of its port receives them:
\* three snapshots that differ in their action count.
MonitorSnapshots ==
    {[timestamp |-> 0, data_pusher_queue_size |-> 0,
      data_validator_queue_size |-> 0, action_count |-> c] : c \in 1..3}

\* monitor(port): a snapshot arrives and the collection of the port is
\* updated.
MonitorReceive(port) ==
    /\ Len(received[port]) < MaxUpdates
    /\ \E data \in MonitorSnapshots :
         /\ health_collections' =
                [health_collections EXCEPT ![port] = Update(@, data)]
         /\ received' = [received EXCEPT ![port] = Append(@, data)]
    /\ status_result' = NoResult
    /\ UNCHANGED <<salus_time, poolVars, valVars, sinkVars, healthVars,
                   collVars>>

InitM ==
    /\ Construct("LoadBalancer", "worker", CfgMin, CfgMax, MaxDepth - 1)
    /\ InitValidator
    /\ InitSink
    /\ InitHealth
    /\ InitCollector
    /\ InitMonitor

NextMonitor ==
    \E port \in Ports : MonitorReceive(port)

SpecMonitor ==
    InitM /\ [][NextMonitor]_vars

\* The last n elements of s, all of s when it has fewer.
LastN(s, n) ==
    IF Len(s) <= n THEN s ELSE SubSeq(s, Len(s) - n + 1, Len(s))

\* C25: after k update() calls on the collection of a port, the collection
\* holds the last min(k, max_size) snapshots received on that port, in the
\* order of arrival; what arrives on another port does not change it.
C25_LastSnapshotsInOrder ==
    /\ [](\A port \in Ports :
            /\ health_collections[port] = LastN(received[port], max_size)
            /\ Len(health_collections[port])
                   = Min(Len(received[port]), max_size))
    /\ [][\A port \in Ports :
            received'[port] = received[port]
                => health_collections'[port] = health_collections[port]]_vars

\* C25 witness: one port has received more than max_size snapshots, not all
\* alike, and the other port fewer than max_size.
C25_Witness ==
    \E port, other \in Ports :
        /\ Len(received[port]) > max_size
        /\ received[port][1] # received[port][Len(received[port])]
        /\ received[other] # <<>>
        /\ Len(received[other]) < max_size

-----------------------------------------------------------------------------
\* status() on the collection of one collector.

\* The moments at which something happens: the thresholds of the age and of
\* the window, and their neighbours.
Moments ==
    {0, StaleAfter, StaleAfter + 1, DEGRADED_WINDOW - StaleAfter,
     DEGRADED_WINDOW - 1, DEGRADED_WINDOW}

\* What a snapshot holds, as <<size of the pusher queue, size of the
\* validator queue, action count of the stream readers>>: queues at most
\* 1000 with action counts whose differences lie on both sides of
\* DEGRADED_THRESHOLD * DEGRADED_WINDOW, and queue sizes around the two
\* thresholds.
SnapshotValues ==
    {<<DegradedQueueSize, DegradedQueueSize, 0>>,
     <<DegradedQueueSize, DegradedQueueSize, 1>>,
     <<DegradedQueueSize, DegradedQueueSize,
       DEGRADED_THRESHOLD * DEGRADED_WINDOW>>,
     <<DegradedQueueSize + 1, DegradedQueueSize, 0>>,
     <<ErrorQueueSize, DegradedQueueSize, 0>>,
     <<15000, DegradedQueueSize, 0>>,
     <<DegradedQueueSize, DegradedQueueSize + 1, 0>>,
     <<DegradedQueueSize, ErrorQueueSize + 1, 0>>,
     <<DegradedQueueSize + 1, ErrorQueueSize + 1, 0>>}

\* The collectors status() is asked about: two that are monitored and one
\* that is not.
StatusIndices ==
    Indices \cup {3}

\* monitor(port) for the collector of index 1: a snapshot stamped at the
\* present moment arrives.
StatusReceive ==
    /\ \E v \in SnapshotValues :
         health_collections' =
             [health_collections EXCEPT ![health_port(1)] =
                 Update(@, [timestamp |-> salus_time,
                            data_pusher_queue_size |-> v[1],
                            data_validator_queue_size |-> v[2],
                            action_count |-> v[3]])]
    /\ status_result' = NoResult
    /\ UNCHANGED <<salus_time, received, poolVars, valVars, sinkVars,
                   healthVars, collVars>>

\* Time passes at the monitor.
StatusAdvance ==
    /\ \E t \in Moments : t > salus_time /\ salus_time' = t
    /\ status_result' = NoResult
    /\ UNCHANGED <<health_collections, received, poolVars, valVars, sinkVars,
                   healthVars, collVars>>

\* monitor.status(index)
StatusCall(index) ==
    /\ status_result.index # index
    /\ status_result' = Status(index, salus_time)
    /\ UNCHANGED <<salus_time, health_collections, received, poolVars,
                   valVars, sinkVars, healthVars, collVars>>

NextStatus ==
    \/ StatusReceive
    \/ StatusAdvance
    \/ \E index \in StatusIndices : StatusCall(index)

SpecStatus ==
    InitM /\ [][NextStatus]_vars

\* The collector the last status() call was about.
Asked ==
    status_result.index

\* No snapshot has been received for collector i, or i is not monitored.
NoSnapshot(i) ==
    health_port(i) \notin Ports \/ health_collections[health_port(i)] = <<>>

LastSnapshot(i) ==
    health_collections[health_port(i)][Len(health_collections[health_port(i)])]

\* The time since the timestamp of the last snapshot of collector i.
Age(i) ==
    salus_time - LastSnapshot(i).timestamp

\* The snapshots of collector i of the last DEGRADED_WINDOW seconds.
InWindow(i) ==
    SelectSeq(health_collections[health_port(i)],
              LAMBDA d : salus_time - d.timestamp < DEGRADED_WINDOW)

\* The count of the newest snapshot of the window minus that of the oldest,
\* over the window, is below the threshold.
LowThroughput(i) ==
    InWindow(i)[Len(InWindow(i))].action_count - InWindow(i)[1].action_count
        < DEGRADED_THRESHOLD * DEGRADED_WINDOW

\* The documented outcomes in their order of precedence, from the message
\* returned.
Rank(message) ==
    CASE message = "Unknown" -> 0
      [] message = "Error" -> 1
      [] message \in {"Degraded: Data pusher queue size",
                      "Error: Data pusher queue size"} -> 2
      [] message \in {"Degraded: Data validator queue size",
                      "Error: Data validator queue size"} -> 3
      [] message = "Degraded: actions per second too low" -> 4
      [] message = "OK" -> 5
      [] OTHER -> 6

\* The condition under which the outcomes of rank k are documented.
Applies(k, i) ==
    CASE k = 0 -> NoSnapshot(i)
      [] k = 1 -> ~NoSnapshot(i) /\ Age(i) > StaleAfter
      [] k = 2 -> ~NoSnapshot(i)
                    /\ LastSnapshot(i).data_pusher_queue_size
                           > DegradedQueueSize
      [] k = 3 -> ~NoSnapshot(i)
                    /\ LastSnapshot(i).data_validator_queue_size
                           > DegradedQueueSize
      [] k = 4 -> ~NoSnapshot(i) /\ InWindow(i) # <<>> /\ LowThroughput(i)
      [] OTHER -> FALSE

\* C26: status(i) returns (3, Unknown) exactly when no snapshot has been
\* received for collector i or i is not monitored; it returns one of the
\* documented outcomes, and an outcome is returned only when none of the
\* outcomes before it in the order Unknown, staleness Error, pusher queue,
\* validator queue, low throughput, OK applies; a stale snapshot gives the
\* staleness Error whatever its queues.
C26_UnknownAndPrecedence ==
    Asked # 0 =>
        /\ (status_result.code = 3 <=> NoSnapshot(Asked))
        /\ (status_result.message = "Unknown" <=> status_result.code = 3)
        /\ Rank(status_result.message) <= 5
        /\ \A k \in 0..4 :
             k < Rank(status_result.message) => ~Applies(k, Asked)
        /\ (Applies(1, Asked) => Rank(status_result.message) = 1)

\* C26 witness: status() has returned a pusher-queue result for a collector
\* whose last snapshot, not stale, has both queues above 1000 and a low
\* throughput.
C26_Witness ==
    /\ Asked = 1
    /\ Rank(status_result.message) = 2
    /\ Applies(3, Asked)
    /\ Applies(4, Asked)
    /\ Len(health_collections[health_port(1)]) = max_size

\* C27 as claimed: once a snapshot has been received, status(i) returns the
\* staleness result (2, Error) exactly when the age of the last snapshot is
\* above 5 s, and not for any age from 0 to 5 s.
C27_StaleIffOlderThanFive ==
    (Asked # 0 /\ ~NoSnapshot(Asked)) =>
        ((status_result.code = 2 /\ status_result.message = "Error")
             <=> Age(Asked) > StaleAfter)

\* The last snapshot of collector i is at most 5 s old.
FreshLatest(i) ==
    ~NoSnapshot(i) /\ Age(i) >= 0 /\ Age(i) <= StaleAfter

\* C28 as claimed: with a fresh last snapshot, status(i) returns code 2 when
\* the pusher queue is above 10000, and when the pusher queue is at most
\* 1000 and the validator queue is above 10000.
C28_ErrorAboveTenThousand ==
    (Asked # 0 /\ FreshLatest(Asked)) =>
        LET pq == LastSnapshot(Asked).data_pusher_queue_size
            vq2 == LastSnapshot(Asked).data_validator_queue_size
        IN  /\ pq > ErrorQueueSize => status_result.code = 2
            /\ (pq <= DegradedQueueSize /\ vq2 > ErrorQueueSize)
                   => status_result.code = 2

\* C29 as claimed: with a fresh last snapshot, status(i) returns code 1 with
\* a queue message when the pusher queue is above 1000 and at most 10000, or
\* the pusher queue is at most 1000 and the validator queue above 1000 and
\* at most 10000; queues of at most 1000 give no queue message.
C29_DegradedAboveThousand ==
    (Asked # 0 /\ FreshLatest(Asked)) =>
        LET pq == LastSnapshot(Asked).data_pusher_queue_size
            vq2 == LastSnapshot(Asked).data_validator_queue_size
        IN  /\ (pq > DegradedQueueSize /\ pq <= ErrorQueueSize) =>
                  /\ status_result.code = 1
                  /\ status_result.message
                         = "Degraded: Data pusher queue size"
            /\ (/\ pq <= DegradedQueueSize
                /\ vq2 > DegradedQueueSize
                /\ vq2 <= ErrorQueueSize) =>
                  /\ status_result.code = 1
                  /\ status_result.message
                         = "Degraded: Data validator queue size"
            /\ (pq <= DegradedQueueSize /\ vq2 <= DegradedQueueSize) =>
                  Rank(status_result.message) \notin {2, 3}

\* C30 as claimed: with a fresh last snapshot and both queues at most 1000,
\* status(i) returns code 1 for low throughput exactly when the velocity of
\* the action count over the last 60 s is below 5, and (0, OK) otherwise.
C30_LowThroughputBelowFive ==
    (/\ Asked # 0
     /\ FreshLatest(Asked)
     /\ LastSnapshot(Asked).data_pusher_queue_size <= DegradedQueueSize
     /\ LastSnapshot(Asked).data_validator_queue_size <= DegradedQueueSize)
    => IF LowThroughput(Asked)
       THEN /\ status_result.code = 1
            /\ status_result.message = "Degraded: actions per second too low"
       ELSE status_result.code = 0 /\ status_result.message = "OK"

-----------------------------------------------------------------------------
\* The supervisor loop of the collector.

\* C31 as claimed: once the supervisor loop has run for more than the
\* refresh interval, refresh() has been called on the pool of stream readers.
C31_ReadersRefreshed ==
    tick_number - 1 > RefreshInterval => pool["data_collector"].refreshed

\* C37 as claimed: when a tick other than the first is about to begin,
\* update_health has run since the tick before it began, also when that tick
\* took a second or longer.
C37_HealthUpdatedEveryTick ==
    (main = "ticking" /\ tick_number > 1) => updated

-----------------------------------------------------------------------------
\* The worker count and the bounds of a pool.

\* process_count(): len(self.processes)
process_count ==
    Len(processes)

\* C32 as claimed: in every reachable state process_count() is the number of
\* workers of the pool that are alive.
C32_CountIsLiveWorkers ==
    process_count = Live

\* C33: when autoscale() of a running pool has returned, no worker that was
\* dead when the call began is left in the pool and process_count() lies
\* between min_processes and max_processes, whatever the pool held before.
C33_AutoscaleRestoresBounds ==
    (obs.op = "autoscale" /\ obs.ok)
        => /\ obs.dead \cap Range(processes) = {}
           /\ min_processes <= process_count
           /\ process_count <= max_processes

\* autoscale() has returned on a pool that a repeated start() had filled
\* above max_processes: it held a dead worker, and more live workers than
\* max_processes, so that _scale terminated some.
C33_Witness ==
    /\ obs.op = "autoscale"
    /\ obs.ok
    /\ Len(obs.before) - Cardinality(obs.dead) > max_processes
    /\ obs.dead # {}
    /\ obs.killed # {}
    /\ process_count = max_processes

\* C38 as claimed: a LoadBalancer's autoscale() removes a worker in
\* _balance_load only when the depth it stores as previous_queue_size in that
\* call is below max_queue_size and strictly below the depth the call before
\* it stored.
C38_ShrinksOnlyOnStoredDepths ==
    (Balanced /\ process_count < obs.nb)
        => /\ obs.q < max_queue_size
           /\ obs.q < obs.prev

\* C40 as claimed: after stop() and before another start(), autoscale()
\* raises and leaves the pool empty.
C40_AutoscaleAfterStopRaises ==
    (stopped /\ obs.op = "autoscale")
        => /\ ~obs.ok
           /\ processes = <<>>

-----------------------------------------------------------------------------
\* The shared counter of the stream readers.

\* C36 as claimed: whenever no stream reader is between its queue.put and the
\* end of its telemetry["data_count"] += 1, the shared counter equals the number
\* of items the readers have put, however many readers run.
C36_CountEqualsItemsForwarded ==
    (\A w \in Readers : cpc[w] = "put") => collection_count = creads

-----------------------------------------------------------------------------
\* A PRICE line that reaches the sink more than once.

\* The derived packet process_data builds from the PRICE line; it carries no
\* time of processing, so every copy of the line gives this packet.
PriceLinePacket ==
    DerivedPacket(Loads(Item("PRICE", PriceFields, "compact")))

\* C39: of two derived packets of the same PRICE line, at most one is put on
\* the write queue unless at least maxlen packets were admitted to the ring
\* between them: two copies among the forwarded packets have at least maxlen
\* forwarded packets between them.
C39_OneDerivedPacketPerLine ==
    \A k, l \in 1..Len(ForwardedAll) :
        (k < l /\ ForwardedAll[k] = PriceLinePacket
               /\ ForwardedAll[l] = PriceLinePacket)
            => l - k - 1 >= maxlen

\* The derived packet of a PRICE line came twice with other packets admitted
\* between the copies, fewer than maxlen, and was forwarded once.
C39_Witness ==
    /\ \E i, j \in 1..Len(stream) :
         /\ i + 1 < j
         /\ stream[i] = PriceLinePacket
         /\ stream[j] = PriceLinePacket
         /\ \A n \in (i + 1)..(j - 1) : stream[n] # PriceLinePacket
         /\ Cardinality({stream[n] : n \in (i + 1)..(j - 1)}) = j - i - 1
         /\ j - i - 1 < maxlen
    /\ Cardinality({k \in 1..Len(ForwardedAll) :
                      ForwardedAll[k] = PriceLinePacket}) = 1
    /\ duplicate_count >= 1

-----------------------------------------------------------------------------
\* The order of the items through the validator stage.

\* The validators that were started.
RunningValidators ==
    {w \in Validators : vpc[w] # "off"}

\* C34: the unvalidated queue holds the items in the order they arrived (it
\* is the part of the arrivals not yet taken), and with exactly one validator
\* the validator takes them in that order and the validated queue holds the
\* forwarded ones in the same relative order.
C34_OrderPreserved ==
    /\ unvalidated_queue =
           SubSeq(vfed, Len(vfed) - Len(unvalidated_queue) + 1, Len(vfed))
    /\ Cardinality(RunningValidators) = 1
         => /\ \A i \in 1..Len(vlog) : vlog[i].item = vfed[i]
            /\ validated_queue = PutItems(vlog)

\* One validator has forwarded two different items, which lie on the validated
\* queue in the order they arrived.
C34_Witness ==
    /\ Cardinality(RunningValidators) = 1
    /\ Len(validated_queue) >= 2
    /\ validated_queue[1] # validated_queue[2]
    /\ validated_queue[1] = vfed[1]
    /\ validated_queue[2] = vfed[2]

-----------------------------------------------------------------------------
\* The supervision of the pools of the sink.

\* C35 as claimed: the main loop of the sink keeps autoscaling the recorder
\* pool, so a recorder that has exited is eventually replaced by a running
\* one.
C35_ExitedRecorderReplaced ==
    \A r \in Recorders : (rpc[r] = "dead") ~> (rpc[r] # "dead")

====
